---- MODULE Spec2Model ----
(***************************************************************************)
(* A model of the Gemini coding agent: the ReAct loop of CodingAgent       *)
(* (src/agent.py), the tool registry (src/tools/base.py), the path         *)
(* validation and the file tools (src/tools/file_ops.py) and the shell     *)
(* tool (src/tools/shell_exec.py).                                         *)
(*                                                                         *)
(* Texts are sequences of tokens: "\n".join(parts) and the += of the limit *)
(* notice are sequence operations, so that an answer with and without the  *)
(* notice are different values.                                            *)
(***************************************************************************)
EXTENDS Integers, Sequences, FiniteSets, TLC

\* ------------------------------------------------------------------ bounds
\* Turns (process_message calls) of one session.
MaxTurns == 1
\* Responses of a turn in which the model picks its batch of tool calls
\* freely among Batches; afterwards it requests RepeatBatch, or answers
\* without tool calls, or the call fails.
MaxFreeIters == 1

\* ------------------------------------------------------- program constants
REACT_SAFETY_LIMIT == 20
RECENT_MESSAGES_LIMIT == 10

Null == "<absent>"

Fallback == "I couldn't generate a response."
LimitNotice == "\n\n(Note: I reached my processing limit of 20 iterations. You may want to break this down into smaller steps.)"
SystemPrompt == "<SYSTEM_PROMPT>"
PrimingAck == "I understand. I'm a coding agent ready to help with programming tasks and file operations."

\* ------------------------------------------------------------ sequences
IsPrefix(s, t) == Len(s) <= Len(t) /\ SubSeq(t, 1, Len(s)) = s

Last(s) == s[Len(s)]

\* "\n".join(text_responses)
RECURSIVE Join(_)
Join(parts) ==
    IF parts = <<>> THEN <<>>
    ELSE IF Len(parts) = 1 THEN <<parts[1]>>
    ELSE <<parts[1], "\n">> \o Join(Tail(parts))

\* ---------------------------------------------------------- the registry
FileToolNames == {"read_file", "write_file", "list_files", "search_files"}

\* The names _setup_tools registers.
RegisteredNames == FileToolNames \cup {"shell_exec", "web_search"}

Required(name) ==
    CASE name = "read_file" -> {"path"}
      [] name = "write_file" -> {"path", "content"}
      [] name = "list_files" -> {"path"}
      [] name = "search_files" -> {"path", "pattern"}
      [] name = "shell_exec" -> {"command"}
      [] name = "web_search" -> {"query"}
      [] OTHER -> {}

\* A result dictionary: its "error" (<<>>: no such key), its "success" (Null:
\* no such key) and the rest of it.
Result(e, s, p) == [error |-> e, success |-> s, payload |-> p]

ErrorResult(detail) == Result(detail, Null, Null)

HasError(result) == result.error # <<>>

\* What tool.execute(**kwargs) can do for the keyword arguments given: the
\* results its return statements build, or an exception that leaves execute.
\* kwargs: [keys: the argument names, typed: the values have the schema's types].
ToolExecute(name, kwargs) ==
    LET given == Required(name) \subseteq kwargs.keys
        ret(r) == [raises |-> FALSE, result |-> r]
    IN
    CASE name = "read_file" ->
           IF ~kwargs.typed THEN {ret(ErrorResult(<<"Access denied">>))}
           ELSE IF ~given THEN {ret(ErrorResult(<<"Path is not a file">>))}
           ELSE {ret(Result(<<>>, "true", "content")),
                 ret(ErrorResult(<<"Access denied">>))}
      [] name = "write_file" ->
           IF ~kwargs.typed THEN {ret(ErrorResult(<<"Access denied">>))}
           ELSE IF ~given THEN {ret(ErrorResult(<<"OS error writing file">>))}
           ELSE {ret(Result(<<>>, "true", "written")),
                 ret(ErrorResult(<<"Access denied">>))}
      [] name = "list_files" ->
           IF ~kwargs.typed THEN {ret(ErrorResult(<<"Access denied">>))}
           ELSE {ret(Result(<<>>, "true", "listing"))}
      [] name = "search_files" ->
           IF ~kwargs.typed THEN {ret(ErrorResult(<<"Could not search files">>))}
           ELSE {ret(Result(<<>>, "true", "matches")),
                 ret(Result(<<>>, "true", "group_matches")),
                 ret(Result(<<>>, "true", "no_matches")),
                 ret(ErrorResult(<<"Could not search files">>))}
      [] name = "shell_exec" ->
           IF ~kwargs.typed THEN {[raises |-> TRUE, result |-> ErrorResult(<<"raised">>)]}
           ELSE IF ~given THEN {ret(ErrorResult(<<"Command cannot be empty">>))}
           ELSE {ret(Result(<<>>, "true", "exit_code_0")),
                 ret(Result(<<>>, "false", "exit_code_nonzero")),
                 ret(ErrorResult(<<"Execution timed out after 10 seconds">>))}
      [] name = "web_search" ->
           IF ~kwargs.typed THEN {[raises |-> TRUE, result |-> ErrorResult(<<"raised">>)]}
           ELSE IF ~given THEN {ret(ErrorResult(<<"Search query cannot be empty">>))}
           ELSE {ret(Result(<<>>, "true", "results")),
                 ret(ErrorResult(<<"Brave Search API key not found">>))}
      [] OTHER -> {}

\* ToolRegistry.execute_tool(name, **kwargs), entered: the lookup, and the
\* try/except around tool.execute.
ExecuteTool(tools, name, kwargs) ==
    IF name \notin tools
    THEN {[raises |-> FALSE, result |-> ErrorResult(<<"Unknown tool:", name>>), ran |-> Null]}
    ELSE {[raises |-> FALSE,
           result |-> IF o.raises THEN ErrorResult(<<"Tool execution failed">>) ELSE o.result,
           ran |-> name] : o \in ToolExecute(name, kwargs)}

\* The call  self.tool_registry.execute_tool(func_call.name, **args)  with
\* args = func_call.args if hasattr(func_call, 'args') else {}.
\* fc.args.kind is "noattr" (the attribute is missing), "none" (the attribute
\* is None) or "mapping". Unpacking None, and a mapping with the key "name"
\* (execute_tool's own positional parameter), raise TypeError at the call,
\* before execute_tool's body and its try block are entered.
DispatchCall(tools, fc) ==
    LET args == IF fc.args.kind = "noattr" THEN [keys |-> {}, typed |-> TRUE]
                ELSE [keys |-> fc.args.keys, typed |-> fc.args.typed]
    IN
    IF fc.args.kind = "none" THEN {[raises |-> TRUE, result |-> ErrorResult(<<"raised">>), ran |-> Null]}
    ELSE IF "name" \in args.keys THEN {[raises |-> TRUE, result |-> ErrorResult(<<"raised">>), ran |-> Null]}
    ELSE ExecuteTool(tools, fc.name, args)

\* ------------------------------------------------------- result formatting
Content(role, text) == [role |-> role, text |-> text]

\* _format_tool_result_for_gemini: the transcript turn, or the exception the
\* formatting raises. A search_files sample list produced by a pattern with
\* several capture groups holds tuples, which ', '.join refuses (TypeError).
FormatToolResult(tool_name, result) ==
    LET turn(t) == [raises |-> FALSE, content |-> Content("user", <<"[Tool Result]">> \o t)]
    IN
    IF HasError(result)
    THEN turn(<<"Tool", tool_name, "failed:">> \o result.error)
    ELSE IF result.success = "true"
    THEN CASE tool_name = "read_file" -> turn(<<"File content from", result.payload>>)
           [] tool_name = "write_file" -> turn(<<"Successfully wrote to", result.payload>>)
           [] tool_name = "list_files" -> turn(<<"Directory listing for", result.payload>>)
           [] tool_name = "search_files" ->
                IF result.payload = "group_matches"
                THEN [raises |-> TRUE, content |-> Content("user", <<>>)]
                ELSE IF result.payload = "no_matches"
                THEN turn(<<"Search results for", "No matches found.">>)
                ELSE turn(<<"Search results for", result.payload>>)
           [] tool_name = "shell_exec" -> turn(<<"Shell command executed:", result.payload>>)
           [] tool_name = "web_search" -> turn(<<"Web search results for", result.payload>>)
           [] OTHER -> turn(<<"Tool", tool_name, "completed:", result.payload>>)
    ELSE turn(<<"Tool", tool_name, "result:", result.payload>>)

\* _format_tool_results_for_gemini: every result in order; the first
\* exception ends it.
RECURSIVE FormatToolResults(_)
FormatToolResults(tool_results) ==
    IF tool_results = <<>> THEN [raises |-> FALSE, contents |-> <<>>]
    ELSE LET f == FormatToolResult(tool_results[1].name, tool_results[1].response)
             rest == FormatToolResults(Tail(tool_results))
         IN IF f.raises \/ rest.raises THEN [raises |-> TRUE, contents |-> <<>>]
            ELSE [raises |-> FALSE, contents |-> <<f.content>> \o rest.contents]

\* ------------------------------------------------------------ the history
Message(role, content) == [role |-> role, content |-> content]

\* AddMessage, were the message put in front.
AddMessageInFront(msgs, role, content) == <<Message(role, content)>> \o msgs

\* add_message: the history with one message appended.
AddMessage(msgs, role, content) == Append(msgs, Message(role, content))

\* json.dump's escapes inside a string, and json.load's reading of them.
JsonEscape(tok) ==
    CASE tok = "\n" -> "\\n"
      [] tok = "\"" -> "\\\""
      [] tok = "\\" -> "\\\\"
      [] OTHER -> tok

\* JsonUnescape, were the escapes left as they are.
JsonUnescapeNone(tok) == tok

JsonUnescape(tok) ==
    CASE tok = "\\n" -> "\n"
      [] tok = "\\\"" -> "\""
      [] tok = "\\\\" -> "\\"
      [] OTHER -> tok

\* The JSON array json.dump writes for self.messages, and the list
\* json.load builds from it.
DumpMessages(msgs) ==
    [i \in 1..Len(msgs) |->
        [role |-> msgs[i].role,
         content |-> [j \in 1..Len(msgs[i].content) |-> JsonEscape(msgs[i].content[j])]]]

LoadMessages(array) ==
    [i \in 1..Len(array) |->
        [role |-> array[i].role,
         content |-> [j \in 1..Len(array[i].content) |-> JsonUnescape(array[i].content[j])]]]

\* The history file. kind: "missing" | "unreadable" (no permission to read) |
\* "undecodable" (bytes that are no UTF-8) | "invalid" (no JSON document, as
\* an empty or cut-off file) | "array" (a JSON document that is no object) |
\* "no_messages" (an object without the key "messages") | "object".
HistoryFile(kind, array) == [kind |-> kind, messages |-> array]

\* NoFile: the history file does not exist.
NoFile == HistoryFile("missing", <<>>)

\* The file after a save_history that succeeds.
SaveHistory(msgs) == HistoryFile("object", DumpMessages(msgs))

\* SaveHistoryOn, were nothing written.
SaveHistorySkipped(state, file, msgs) == file

\* save_history on a disk that is "ok", "readonly" (open raises, the file
\* stays as it is) or "full" (open has truncated the file and the write
\* raises); the exception is caught and printed.
SaveHistoryOn(state, file, msgs) ==
    CASE state = "ok" -> SaveHistory(msgs)
      [] state = "readonly" -> file
      [] state = "full" -> HistoryFile("invalid", <<>>)

\* load_history with self.messages = msgs: the messages after it, or the
\* exception that leaves it. JSONDecodeError and FileNotFoundError are
\* caught; PermissionError, UnicodeDecodeError and the AttributeError of
\* data.get on a document that is no object are not.
LoadHistory(file, msgs) ==
    CASE file.kind = "missing" -> [raises |-> FALSE, messages |-> msgs]
      [] file.kind = "invalid" -> [raises |-> FALSE, messages |-> <<>>]
      [] file.kind = "no_messages" -> [raises |-> FALSE, messages |-> <<>>]
      [] file.kind = "object" -> [raises |-> FALSE, messages |-> LoadMessages(file.messages)]
      [] OTHER -> [raises |-> TRUE, messages |-> msgs]

\* RecentMessages, were older messages kept.
RecentMessagesAll(msgs) == msgs

\* self.messages[-RECENT_MESSAGES_LIMIT:] if longer, else self.messages
RecentMessages(msgs) ==
    IF Len(msgs) > RECENT_MESSAGES_LIMIT
    THEN SubSeq(msgs, Len(msgs) - RECENT_MESSAGES_LIMIT + 1, Len(msgs))
    ELSE msgs

\* The loop of build_messages_list over recent_messages: assistant becomes
\* model, system messages are skipped.
RECURSIVE HistoryContents(_)
HistoryContents(recent) ==
    IF recent = <<>> THEN <<>>
    ELSE LET m == recent[1]
         IN (IF m.role = "system" THEN <<>>
             ELSE <<Content(IF m.role = "assistant" THEN "model" ELSE m.role, m.content)>>)
            \o HistoryContents(Tail(recent))

BuildMessagesList(msgs, user_input) ==
    LET recent == RecentMessages(msgs)
        head == <<Content("user", <<SystemPrompt>>), Content("model", <<PrimingAck>>)>>
    IN head \o HistoryContents(recent)
            \o (IF recent = <<>> \/ Last(recent).content # user_input
                THEN <<Content("user", user_input)>>
                ELSE <<>>)

\* ----------------------------------------------------- the model's responses
Mapping(keys, typed) == [kind |-> "mapping", keys |-> keys, typed |-> typed]

FunctionCall(name, args) == [name |-> name, args |-> args]

ValidCall(name) == FunctionCall(name, Mapping(Required(name), TRUE))

\* A tool call the model keeps repeating: a tool name it made up.
RepeatBatch == <<ValidCall("no_such_tool")>>

\* The batches of tool calls the model picks from while it picks freely.
Batches ==
    { RepeatBatch,
      <<ValidCall("write_file"), ValidCall("read_file")>>,
      <<ValidCall("no_such_tool"), ValidCall("list_files")>>,
      <<ValidCall("list_files"), ValidCall("no_such_tool")>>,
      <<ValidCall("search_files")>>,
      <<FunctionCall("web_search", Mapping({"query", "verbose"}, TRUE))>>,
      <<FunctionCall("shell_exec", Mapping({"command"}, FALSE))>>,
      <<FunctionCall("read_file", Mapping({}, TRUE))>>,
      <<FunctionCall("list_files", [kind |-> "noattr", keys |-> {}, typed |-> TRUE])>>,
      <<ValidCall("list_files"),
        FunctionCall("list_files", [kind |-> "none", keys |-> {}, typed |-> TRUE])>>,
      <<ValidCall("list_files"),
        FunctionCall("read_file", Mapping({"path", "name"}, TRUE))>>,
      <<FunctionCall("no_such_tool", Mapping({"name"}, TRUE))>>,
      <<ValidCall("read_file"),
        FunctionCall("list_files", Mapping({"path", "name"}, TRUE))>> }

\* The text parts of one response.
TextParts == { <<>>, <<"t1">>, <<"t1", "t2">> }

\* A response: the parts of its first candidate, text parts then function
\* calls. A part holds a text, a function call, or both.
Part(text, fc) == [text |-> text, function_call |-> fc]

NoCall == FunctionCall(Null, [kind |-> "noattr", keys |-> {}, typed |-> TRUE])

Response(texts, calls) ==
    [i \in 1..Len(texts) |-> Part(texts[i], NoCall)]
    \o [i \in 1..Len(calls) |-> Part("", calls[i])]

\* _parse_gemini_response: the truthy texts and the truthy function calls of
\* the parts, each in order.
RECURSIVE ParseTexts(_)
ParseTexts(parts) ==
    IF parts = <<>> THEN <<>>
    ELSE (IF parts[1].text # "" THEN <<parts[1].text>> ELSE <<>>) \o ParseTexts(Tail(parts))

RECURSIVE ParseCalls(_)
ParseCalls(parts) ==
    IF parts = <<>> THEN <<>>
    ELSE (IF parts[1].function_call # NoCall THEN <<parts[1].function_call>> ELSE <<>>)
         \o ParseCalls(Tail(parts))

UserInputs == { <<"u1">>, <<"u2">> }

\* ------------------------------------------------------------------- state
VARIABLES
    messages,               \* CodingAgent.messages, the history
    history_file,           \* the history file on disk
    pc,                     \* "idle" | "model" | "tools" | "done"
    working,                \* react_loop's local messages
    iterations,             \* react_loop's local iterations
    last_complete_response, \* react_loop's local; <<>> is None
    function_calls,         \* the batch being executed
    tool_results,           \* _execute_tool_calls' local tool_results
    answer,                 \* what process_message returned
    ended,                  \* how the turn ended
    turns,                  \* process_message calls so far
    modelCalls,             \* model calls of this turn
    toolBatches,            \* batches of this turn dispatched to their end
    resultsAppended,        \* result turns appended to working in this turn
    emitted,                \* the tool calls the model emitted this turn, in order
    dispatched,             \* the tool calls dispatched this turn, with their results
    baseLen,                \* Len(working) when the loop was entered
    lastText,               \* the joined text of the turn's latest response with text
    errorPending,           \* a tool returned an error and no model call was made since
    disk                    \* whether the disk takes writes: "ok" | "readonly" | "full"

agentVars == <<messages, history_file, pc, working, iterations, last_complete_response,
               function_calls, tool_results, answer, ended, turns, modelCalls,
               toolBatches, resultsAppended, emitted, dispatched, baseLen, lastText,
               errorPending>>

InitAgent ==
    /\ messages = <<>>
    /\ history_file = NoFile
    /\ pc = "idle"
    /\ working = <<>>
    /\ iterations = 0
    /\ last_complete_response = <<>>
    /\ function_calls = <<>>
    /\ tool_results = <<>>
    /\ answer = <<>>
    /\ ended = "none"
    /\ turns = 0
    /\ modelCalls = 0
    /\ toolBatches = 0
    /\ resultsAppended = 0
    /\ emitted = <<>>
    /\ dispatched = <<>>
    /\ baseLen = 0
    /\ lastText = <<>>
    /\ errorPending = FALSE

\* process_message is called; react_loop runs to its first await.
ProcessMessage(user_input) ==
    /\ pc \in {"idle", "done"}
    /\ turns' = turns + 1
    /\ messages' = AddMessage(messages, "user", user_input)
    /\ working' = BuildMessagesList(messages', user_input)
    /\ baseLen' = Len(working')
    /\ last_complete_response' = <<>>
    /\ iterations' = 0
    /\ function_calls' = <<>>
    /\ tool_results' = <<>>
    /\ answer' = <<>>
    /\ ended' = "none"
    /\ modelCalls' = 0
    /\ toolBatches' = 0
    /\ resultsAppended' = 0
    /\ emitted' = <<>>
    /\ dispatched' = <<>>
    /\ lastText' = <<>>
    /\ errorPending' = FALSE
    /\ pc' = "model"
    /\ UNCHANGED history_file

\* WhileCondition, were the loop left one iteration early.
WhileConditionOneLess(iters) == iters < REACT_SAFETY_LIMIT - 1

\* while iterations < REACT_SAFETY_LIMIT
WhileCondition(iters) == iters < REACT_SAFETY_LIMIT

\* The text react_loop builds after the loop.
FinalResponse(last, iters) ==
    (IF last # <<>> THEN last ELSE <<Fallback>>)
    \o (IF iters >= REACT_SAFETY_LIMIT THEN <<LimitNotice>> ELSE <<>>)

\* Return, were the exception of a failed save to leave save_history: it is
\* caught by process_message, which answers with the error.
ReturnSaveRaises(msgs, text, how) ==
    LET failed == disk # "ok"
        error_msg == <<"Unexpected error:", "OSError">>
        kept == IF failed THEN AddMessage(msgs, "assistant", error_msg) ELSE msgs
    IN /\ messages' = kept
       /\ history_file' = SaveHistoryOn(disk, history_file, kept)
       /\ answer' = IF failed THEN error_msg ELSE text
       /\ ended' = how
       /\ pc' = "done"
       /\ working' = <<>>
       /\ iterations' = 0
       /\ last_complete_response' = <<>>
       /\ function_calls' = <<>>
       /\ tool_results' = <<>>
       /\ emitted' = <<>>
       /\ dispatched' = <<>>
       /\ baseLen' = 0

\* process_message returns text, the last message of msgs: the history is
\* saved and react_loop's locals are gone.
Return(msgs, text, how) ==
    /\ messages' = msgs
    /\ history_file' = SaveHistoryOn(disk, history_file, msgs)
    /\ answer' = text
    /\ ended' = how
    /\ pc' = "done"
    /\ working' = <<>>
    /\ iterations' = 0
    /\ last_complete_response' = <<>>
    /\ function_calls' = <<>>
    /\ tool_results' = <<>>
    /\ emitted' = <<>>
    /\ dispatched' = <<>>
    /\ baseLen' = 0

\* react_loop's code after the loop, then process_message's save and return.
Finish(last, iters, how) ==
    LET final_response == FinalResponse(last, iters)
    IN Return(AddMessage(messages, "assistant", final_response), final_response, how)

\* Unexpected, were the error returned and not recorded.
UnexpectedNotRecorded(how) ==
    Return(messages, <<"Unexpected error:", "TypeError">>, how)

\* An exception leaves react_loop: process_message's except branch.
\* how: "dispatch_raised" | "format_raised", where the exception came from.
Unexpected(how) ==
    LET error_msg == <<"Unexpected error:", "TypeError">>
    IN Return(AddMessage(messages, "assistant", error_msg), error_msg, how)

\* ModelCallFails, were the error recorded and the loop to go on.
ModelCallFailsNoReturn ==
    /\ pc = "model"
    /\ WhileCondition(iterations)
    /\ modelCalls' = modelCalls + 1
    /\ iterations' = iterations + 1
    /\ messages' = AddMessage(messages, "assistant", <<"Error:", "Gemini API Error:", "provider">>)
    /\ ended' = "provider_error"
    /\ errorPending' = FALSE
    /\ UNCHANGED <<history_file, pc, working, last_complete_response, function_calls,
                   tool_results, answer, turns, toolBatches, resultsAppended, emitted,
                   dispatched, baseLen, lastText>>

\* The while condition holds, and _call_gemini returns an error.
ModelCallFails ==
    /\ pc = "model"
    /\ WhileCondition(iterations)
    /\ modelCalls' = modelCalls + 1
    /\ LET error_msg == <<"Error:", "Gemini API Error:", "provider">>
       IN Return(AddMessage(messages, "assistant", error_msg), error_msg, "provider_error")
    /\ errorPending' = FALSE
    /\ UNCHANGED <<turns, toolBatches, resultsAppended, lastText>>

\* The batches the model may request after iters responses.
BatchChoices(iters) == IF iters < MaxFreeIters THEN Batches ELSE {RepeatBatch}

\* The while condition holds, and _call_gemini returns a response.
ModelResponds(texts, calls) ==
    /\ pc = "model"
    /\ WhileCondition(iterations)
    /\ modelCalls' = modelCalls + 1
    /\ LET response == Response(texts, calls)
           text_responses == ParseTexts(response)
           fcs == ParseCalls(response)
           last == IF text_responses # <<>> THEN Join(text_responses)
                   ELSE last_complete_response
       IN IF fcs = <<>>
          THEN Finish(last, iterations + 1, "finished")
          ELSE /\ iterations' = iterations + 1
               /\ last_complete_response' = last
               /\ emitted' = emitted \o fcs
               /\ function_calls' = fcs
               /\ tool_results' = <<>>
               /\ pc' = "tools"
               /\ UNCHANGED <<messages, history_file, answer, ended, working,
                              dispatched, baseLen>>
    /\ lastText' = IF texts # <<>> THEN Join(texts) ELSE lastText
    /\ errorPending' = FALSE
    /\ UNCHANGED <<turns, toolBatches, resultsAppended>>

\* NextCall, were the batch walked from its end.
NextCallReversed(fcs, results) == fcs[Len(fcs) - Len(results)]

\* The call _execute_tool_calls makes next.
NextCall(fcs, results) == fcs[Len(results) + 1]

\* One pass of _execute_tool_calls' loop: the next call of the batch is
\* dispatched. After the last one the results are formatted and appended to
\* the working messages, and the while condition is evaluated again.
ExecuteToolCall ==
    /\ pc = "tools"
    /\ LET fc == NextCall(function_calls, tool_results)
       IN \E out \in DispatchCall(RegisteredNames, fc) :
            LET done == [name |-> fc.name, response |-> out.result]
                results == Append(tool_results, done)
                formatted == FormatToolResults(results)
            IN
            /\ errorPending' = (errorPending \/ (~out.raises /\ HasError(out.result)))
            /\ IF out.raises
               THEN /\ Unexpected("dispatch_raised")
                    /\ UNCHANGED <<toolBatches, resultsAppended>>
               ELSE IF Len(results) < Len(function_calls)
               THEN /\ tool_results' = results
                    /\ dispatched' = Append(dispatched, done)
                    /\ UNCHANGED <<messages, history_file, answer, ended, pc, working,
                                   iterations, last_complete_response, function_calls,
                                   emitted, baseLen, toolBatches, resultsAppended>>
               ELSE /\ toolBatches' = toolBatches + 1
                    /\ IF formatted.raises
                       THEN /\ Unexpected("format_raised")
                            /\ UNCHANGED resultsAppended
                       ELSE /\ resultsAppended' = resultsAppended + Len(formatted.contents)
                            /\ IF WhileCondition(iterations)
                               THEN /\ working' = working \o formatted.contents
                                    /\ dispatched' = Append(dispatched, done)
                                    /\ tool_results' = <<>>
                                    /\ pc' = "model"
                                    /\ UNCHANGED <<messages, history_file, answer, ended,
                                                   iterations, last_complete_response,
                                                   function_calls, emitted, baseLen>>
                               ELSE Finish(last_complete_response, iterations, "limit")
    /\ UNCHANGED <<turns, modelCalls, lastText>>


\* ---------------------------------------------------------- path validation
\* A name is a sequence of characters, a path a sequence of names, so that
\* str(path) is a sequence of characters and startswith compares characters.
NameW == <<"w">>
NameW2 == <<"w", "2">>
NameH == <<"h">>
NameE == <<"e">>
NameS == <<"s">>
NameL == <<"l">>
NameF == <<"f">>
Dot == <<".">>
DotDot == <<".", ".">>

\* The longest candidate path, in segments.
MaxSegs == 3

\* str(path) of an absolute path.
RECURSIVE PathStr(_)
PathStr(path) ==
    IF path = <<>> THEN <<"/">>
    ELSE IF Len(path) = 1 THEN <<"/">> \o path[1]
    ELSE PathStr(SubSeq(path, 1, Len(path) - 1)) \o <<"/">> \o Last(path)

\* StartsWith, were the prefix required to be a proper one.
StartsWithProper(s, prefix) == Len(prefix) < Len(s) /\ SubSeq(s, 1, Len(prefix)) = prefix

\* str.startswith
StartsWith(s, prefix) == IsPrefix(prefix, s)

Parent(path) == IF path = <<>> THEN <<>> ELSE SubSeq(path, 1, Len(path) - 1)

\* The path a symbolic link at path leads to; path itself when it is none.
FollowLink(links, path) ==
    IF \E l \in links : l.from = path
    THEN (CHOOSE l \in links : l.from = path).to
    ELSE path

\* (working_directory / path).resolve(): the segments applied one by one to
\* the resolved working directory: "." stays, ".." goes to the parent (the
\* root is its own parent), a name goes down and through a symbolic link.
RECURSIVE Resolve(_, _, _)
Resolve(links, cur, segs) ==
    IF segs = <<>> THEN cur
    ELSE LET seg == segs[1]
             nxt == IF seg = Dot THEN cur
                    ELSE IF seg = DotDot THEN Parent(cur)
                    ELSE FollowLink(links, Append(cur, seg))
         IN Resolve(links, nxt, Tail(segs))

Denied == [ok |-> FALSE, file_path |-> <<>>]

\* ValidatePathSecurity, were os.path.isabs not asked: joined to the working
\* directory, an absolute path replaces it and is resolved from the root.
ValidatePathSecurityNoIsabs(wd, links, candidate) ==
    IF candidate.kind = "nul" THEN Denied
    ELSE LET file_path == Resolve(links, IF candidate.kind = "absolute" THEN <<>> ELSE wd,
                                  candidate.segs)
         IN IF ~StartsWith(PathStr(file_path), PathStr(wd)) THEN Denied
            ELSE [ok |-> TRUE, file_path |-> file_path]

\* _validate_path_security, the same code in ReadFileTool, WriteFileTool,
\* ListFilesTool and SearchFilesTool. candidate.kind: "relative", "absolute"
\* (os.path.isabs) or "nul" (an embedded NUL: resolve() raises ValueError).
ValidatePathSecurity(wd, links, candidate) ==
    IF candidate.kind = "absolute" THEN Denied
    ELSE IF candidate.kind = "nul" THEN Denied
    ELSE LET file_path == Resolve(links, wd, candidate.segs)
         IN IF ~StartsWith(PathStr(file_path), PathStr(wd)) THEN Denied
            ELSE [ok |-> TRUE, file_path |-> file_path]

\* The working directories: resolved absolute paths.
Roots == { <<NameW>>, <<NameH, NameW>> }

\* The symbolic links around a working directory: none, one inside it that
\* leads out, one inside it that stays inside, one beside it that leads in.
Layouts(wd) ==
    { {},
      {[from |-> Append(wd, NameL), to |-> <<NameE>>]},
      {[from |-> Append(wd, NameL), to |-> Append(wd, NameS)]},
      {[from |-> Append(Parent(wd), NameL), to |-> Append(wd, NameS)]} }

Segments == { Dot, DotDot, NameW, NameW2, NameS, NameL }

RECURSIVE SeqsUpTo(_, _)
SeqsUpTo(S, n) ==
    IF n = 0 THEN { <<>> }
    ELSE LET shorter == SeqsUpTo(S, n - 1)
         IN shorter \cup { Append(q, x) : q \in shorter, x \in S }

\* The relative candidates, and the candidates refused whatever their
\* segments are.
Candidates ==
    { [kind |-> "relative", segs |-> q] : q \in SeqsUpTo(Segments, MaxSegs) }
        \cup { [kind |-> k, segs |-> q] : k \in {"absolute", "nul"},
                                          q \in SeqsUpTo(Segments, 1) }
        \cup { [kind |-> "absolute", segs |-> Append(wd, NameS)] : wd \in Roots }

VARIABLES
    working_directory,      \* the tools' working_directory
    symlinks,               \* the symbolic links of the file system
    validation              \* the last call of _validate_path_security

pathVars == <<working_directory, symlinks, validation>>

NoValidation ==
    [tool |-> Null, candidate |-> [kind |-> "relative", segs |-> <<>>], result |-> Denied]

InitPath ==
    /\ working_directory \in Roots
    /\ symlinks \in Layouts(working_directory)
    /\ validation = NoValidation

PathIdle ==
    /\ working_directory = <<NameW>>
    /\ symlinks = {}
    /\ validation = NoValidation

\* A file tool validates the path it was given.
Validate(tool, candidate) ==
    /\ validation.tool = Null
    /\ validation' = [tool |-> tool, candidate |-> candidate,
                      result |-> ValidatePathSecurity(working_directory, symlinks, candidate)]
    /\ UNCHANGED <<working_directory, symlinks>>

\* ------------------------------------------------------------ file contents
\* The longest text written, in characters.
MaxText == 2

\* The characters of a text: an ASCII letter, a two-byte letter, CR and LF.
Chars == {"a", "e'", "\r", "\n"}

Texts == SeqsUpTo(Chars, MaxText)

\* str.encode('utf-8')
RECURSIVE Encode(_)
Encode(text) ==
    IF text = <<>> THEN <<>>
    ELSE (CASE text[1] = "a" -> <<97>>
            [] text[1] = "e'" -> <<195, 169>>
            [] text[1] = "\r" -> <<13>>
            [] text[1] = "\n" -> <<10>>) \o Encode(Tail(text))

\* bytes.decode('utf-8'): the text, or ok = FALSE for UnicodeDecodeError.
RECURSIVE Decode(_)
Decode(bytes) ==
    IF bytes = <<>> THEN [ok |-> TRUE, text |-> <<>>]
    ELSE LET one(c, n) == LET rest == Decode(SubSeq(bytes, n + 1, Len(bytes)))
                          IN [ok |-> rest.ok, text |-> <<c>> \o rest.text]
         IN CASE bytes[1] = 97 -> one("a", 1)
              [] bytes[1] = 13 -> one("\r", 1)
              [] bytes[1] = 10 -> one("\n", 1)
              [] bytes[1] = 195 /\ Len(bytes) >= 2 /\ bytes[2] = 169 -> one("e'", 2)
              [] OTHER -> [ok |-> FALSE, text |-> <<>>]

\* Writing in text mode, newline=None: every "\n" becomes os.linesep.
RECURSIVE TranslateOut(_, _)
TranslateOut(text, sep) ==
    IF text = <<>> THEN <<>>
    ELSE (IF text[1] = "\n" THEN sep ELSE <<text[1]>>) \o TranslateOut(Tail(text), sep)

\* Reading in text mode, newline=None: "\r\n" and "\r" become "\n".
RECURSIVE TranslateIn(_)
TranslateIn(text) ==
    IF text = <<>> THEN <<>>
    ELSE IF text[1] = "\r"
    THEN <<"\n">> \o TranslateIn(IF Len(text) >= 2 /\ text[2] = "\n"
                                 THEN SubSeq(text, 3, Len(text))
                                 ELSE Tail(text))
    ELSE <<text[1]>> \o TranslateIn(Tail(text))

\* A node of the file system.
Missing == [kind |-> "missing", data |-> <<>>]
Dir == [kind |-> "dir", data |-> <<>>]
File(bytes) == [kind |-> "file", data |-> bytes]

\* The paths of the file system below the working directory.
FsPaths(wd) == { Append(wd, NameF), Append(wd, NameS), Append(wd, NameS) \o <<NameF>> }

IsDirectory(wd, files, path) ==
    IsPrefix(path, wd) \/ (path \in DOMAIN files /\ files[path].kind = "dir")

\* file_path.parent.mkdir(parents=True, exist_ok=True): the file system after
\* it; ok = FALSE when an ancestor exists and is no directory.
RECURSIVE MkdirParents(_, _, _)
MkdirParents(wd, files, dir) ==
    IF IsDirectory(wd, files, dir) THEN [ok |-> TRUE, files |-> files]
    ELSE IF dir \notin DOMAIN files \/ files[dir].kind = "file"
    THEN [ok |-> FALSE, files |-> files]
    ELSE LET up == MkdirParents(wd, files, Parent(dir))
         IN IF up.ok THEN [ok |-> TRUE, files |-> [up.files EXCEPT ![dir] = Dir]]
            ELSE up

FileError(detail) == [success |-> FALSE, error |-> detail, content |-> <<>>, size |-> 0]

\* WriteFileExecute, were the parent directories made before the path is
\* validated.
WriteFileExecuteMkdirFirst(wd, links, files, sep, path, content) ==
    LET v == ValidatePathSecurity(wd, links, path)
        target == Resolve(links, wd, path.segs)
        made == MkdirParents(wd, files, Parent(target))
    IN IF ~v.ok
       THEN [result |-> FileError("Access denied"), files |-> made.files]
       ELSE IF ~made.ok \/ target \notin DOMAIN files \/ made.files[target].kind = "dir"
       THEN [result |-> FileError("OS error writing file"), files |-> made.files]
       ELSE [result |-> [success |-> TRUE, error |-> Null, content |-> <<>>,
                         size |-> Len(Encode(content))],
             files |-> [made.files EXCEPT
                           ![target] = File(Encode(TranslateOut(content, sep)))]]

\* WriteFileTool.execute: the result and the file system after it.
WriteFileExecute(wd, links, files, sep, path, content) ==
    LET v == ValidatePathSecurity(wd, links, path)
        made == MkdirParents(wd, files, Parent(v.file_path))
    IN IF ~v.ok
       THEN [result |-> FileError("Access denied"), files |-> files]
       ELSE IF ~made.ok \/ v.file_path \notin DOMAIN files
       THEN [result |-> FileError("OS error writing file"), files |-> files]
       ELSE IF made.files[v.file_path].kind = "dir"
       THEN [result |-> FileError("OS error writing file"), files |-> made.files]
       ELSE [result |-> [success |-> TRUE, error |-> Null, content |-> <<>>,
                         size |-> Len(Encode(content))],
             files |-> [made.files EXCEPT
                           ![v.file_path] = File(Encode(TranslateOut(content, sep)))]]

\* ReadFileTool.execute
ReadFileExecute(wd, links, files, path) ==
    LET v == ValidatePathSecurity(wd, links, path)
        node == IF v.file_path \in DOMAIN files THEN files[v.file_path]
                ELSE IF IsPrefix(v.file_path, wd) THEN Dir ELSE Missing
        decoded == Decode(node.data)
    IN IF ~v.ok THEN FileError("Access denied")
       ELSE IF node.kind = "missing" THEN FileError("File not found")
       ELSE IF node.kind # "file" THEN FileError("Path is not a file")
       ELSE IF ~decoded.ok THEN FileError("File is not readable as UTF-8 text")
       ELSE [success |-> TRUE, error |-> Null, content |-> TranslateIn(decoded.text),
             size |-> Len(node.data)]

\* The node at a resolved path: the working directory and what is above it
\* are directories.
NodeAt(wd, files, path) ==
    IF path \in DOMAIN files THEN files[path]
    ELSE IF IsPrefix(path, wd) THEN Dir ELSE Missing

\* An entry that is neither a regular file nor a directory (a dangling
\* symbolic link, a FIFO, a socket): is_file() and is_dir() are both False.
Special == [kind |-> "special", data |-> <<>>]

\* ord() of the characters of the names.
CharCode(c) ==
    CASE c = "." -> 46 [] c = "2" -> 50 [] c = "e" -> 101 [] c = "f" -> 102
      [] c = "h" -> 104 [] c = "l" -> 108 [] c = "s" -> 115 [] c = "w" -> 119

\* a < b on str: the first differing character decides, a proper prefix is less.
RECURSIVE NameLess(_, _)
NameLess(a, b) ==
    IF b = <<>> THEN FALSE
    ELSE IF a = <<>> THEN TRUE
    ELSE IF a[1] # b[1] THEN CharCode(a[1]) < CharCode(b[1])
    ELSE NameLess(Tail(a), Tail(b))

\* list.sort(key=lambda x: x["name"]): ascending by name, stable.
RECURSIVE SortByName(_)
SortByName(items) ==
    IF items = <<>> THEN <<>>
    ELSE LET sorted == SortByName(SubSeq(items, 1, Len(items) - 1))
             item == Last(items)
             before(x) == ~NameLess(item.name, x.name)
             after(x) == NameLess(item.name, x.name)
         IN SelectSeq(sorted, before) \o <<item>> \o SelectSeq(sorted, after)

\* The names a directory can hold.
EntryNames == {NameF, NameS}

\* dir_path.iterdir(): the entries, in an order the file system chooses.
IterDir(files, dir) ==
    LET present == { n \in EntryNames :
                       Append(dir, n) \in DOMAIN files /\ files[Append(dir, n)].kind # "missing" }
    IN { order \in [1..Cardinality(present) -> present] :
           \A i, j \in DOMAIN order : i # j => order[i] # order[j] }

\* The entries of one kind among those iterated, sorted by name.
Entries(files, dir, kind, order) ==
    LET ofKind(n) == files[Append(dir, n)].kind = kind
        info(n) == [name |-> n, path |-> Append(dir, n),
                    size |-> IF kind = "file" THEN Len(files[Append(dir, n)].data) ELSE -1]
        names == SelectSeq(order, ofKind)
    IN SortByName([i \in 1..Len(names) |-> info(names[i])])

\* ListFilesTool.execute, order being what iterdir yields.
ListFilesExecute(wd, links, files, path, order) ==
    LET v == ValidatePathSecurity(wd, links, path)
        node == NodeAt(wd, files, v.file_path)
        directories == Entries(files, v.file_path, "dir", order)
        listed == Entries(files, v.file_path, "file", order)
    IN IF ~v.ok THEN FileError("Access denied")
       ELSE IF node.kind = "missing" THEN FileError("Directory not found")
       ELSE IF node.kind # "dir" THEN FileError("Path is not a directory")
       ELSE [success |-> TRUE, error |-> Null,
             content |-> [directories |-> directories, files |-> listed],
             size |-> Len(listed) + Len(directories)]

\* The patterns searched for: a letter, a letter in two capture groups
\* (findall then returns tuples), and a pattern re.compile refuses.
Patterns ==
    { [kind |-> "char", c |-> "a"], [kind |-> "char", c |-> "z"],
      [kind |-> "groups", c |-> "a"], [kind |-> "invalid", c |-> ""] }

\* FindAll, were every character a match (the empty pattern's behaviour).
FindAllEverything(pattern, text) ==
    [i \in 1..Len(text) |-> [tuple |-> pattern.kind = "groups", text |-> <<text[i]>>]]

\* pattern_regex.findall(content)
FindAll(pattern, text) ==
    LET hit(c) == c = pattern.c
        hits == SelectSeq(text, hit)
    IN [i \in 1..Len(hits) |-> [tuple |-> pattern.kind = "groups", text |-> <<hits[i]>>]]

\* str.lower on the letters of names and extensions.
Lower(text) == [i \in 1..Len(text) |-> IF text[i] = "F" THEN "f" ELSE text[i]]

\* str.endswith
EndsWith(text, suffix) ==
    Len(suffix) <= Len(text)
    /\ SubSeq(text, Len(text) - Len(suffix) + 1, Len(text)) = suffix

\* The file extensions given: none (None or ""), and two suffixes.
Extensions == { <<>>, <<"F">>, <<"x">> }

\* SearchFilesTool.execute. The matches are a set: rglob walks the files in
\* the order of the file system.
SearchFilesExecute(wd, links, files, path, pattern, file_extension) ==
    LET v == ValidatePathSecurity(wd, links, path)
        node == NodeAt(wd, files, v.file_path)
        searched ==
            { q \in DOMAIN files :
                /\ IsPrefix(v.file_path, q) /\ q # v.file_path
                /\ files[q].kind = "file"
                /\ \A k \in Len(v.file_path) + 1 .. Len(q) - 1 :
                       NodeAt(wd, files, SubSeq(q, 1, k)).kind = "dir"
                /\ (file_extension = <<>>
                      \/ EndsWith(Lower(Last(q)), Lower(file_extension)))
                /\ Decode(files[q].data).ok }
        found(q) == FindAll(pattern, TranslateIn(Decode(files[q].data).text))
        matches ==
            { [file |-> q, matches |-> Len(found(q)),
               sample_matches |-> SubSeq(found(q), 1, IF Len(found(q)) < 5 THEN Len(found(q)) ELSE 5)] :
                q \in { x \in searched : found(x) # <<>> } }
    IN IF ~v.ok THEN FileError("Access denied")
       ELSE IF node.kind = "missing" THEN FileError("Directory not found")
       ELSE IF node.kind # "dir" THEN FileError("Path is not a directory")
       ELSE IF pattern.kind = "invalid" THEN FileError("Could not search files")
       ELSE [success |-> TRUE, error |-> Null, content |-> matches,
             size |-> Cardinality(matches)]

\* The dictionary SearchFilesTool.execute returns, as the formatter reads it:
\* the error, or success with the matches, which are none, strings, or the
\* tuples of a pattern with capture groups.
SearchDict(result) ==
    IF ~result.success THEN ErrorResult(<<result.error>>)
    ELSE Result(<<>>, "true",
                IF result.content = {} THEN "no_matches"
                ELSE IF \E match \in result.content :
                          \E i \in 1..Len(match.sample_matches) : match.sample_matches[i].tuple
                THEN "group_matches"
                ELSE "matches")

\* The paths the file tools are called with: a file, a file in a directory
\* that may not exist yet, and the first file again through "..".
FileCandidates ==
    { [kind |-> "relative", segs |-> q] :
        q \in { <<NameF>>, <<NameS, NameF>>, <<NameS, DotDot, NameF>> } }

\* Directories: the working directory and the one below it.
DirCandidates ==
    { [kind |-> "relative", segs |-> q] : q \in { <<>>, <<NameS>> } }

\* Paths the validation refuses: above the working directory, with an
\* embedded NUL, absolute.
DeniedCandidates ==
    { [kind |-> "relative", segs |-> <<DotDot, NameF>>],
      [kind |-> "relative", segs |-> <<DotDot>>],
      [kind |-> "nul", segs |-> <<NameS, NameF>>],
      [kind |-> "absolute", segs |-> <<NameS, NameF>>] }

\* What a file holds before the session: nothing, bytes that are no UTF-8, a
\* text longer than any text written.
PreviousNodes == { Missing, File(<<255>>), File(Encode(<<"a", "\n", "a", "a", "a", "a">>)) }

VARIABLES
    linesep,                \* os.linesep
    files,                  \* the file system below the working directory
    last_write,             \* the last write_file call and its result
    file_result             \* the last file tool call and its result

fileVars == <<linesep, files, last_write, file_result>>

NoArguments == [pattern |-> [kind |-> "none", c |-> ""], file_extension |-> <<>>]

NoFileCall ==
    [tool |-> Null, path |-> <<>>, valid |-> FALSE,
     before |-> [q \in FsPaths(<<NameW>>) |-> Missing], result |-> FileError(Null),
     arguments |-> NoArguments]

NoWrite == [path |-> <<>>, valid |-> FALSE, content |-> <<>>, result |-> FileError(Null)]

\* The record of a call: the tool, the path resolved, whether the validation
\* accepted it, the file system before the call, the result, and the other
\* arguments of a search.
FileCall(tool, path, result) ==
    [tool |-> tool,
     path |-> Resolve(symlinks, working_directory, path.segs),
     valid |-> ValidatePathSecurity(working_directory, symlinks, path).ok,
     before |-> files,
     result |-> result,
     arguments |-> NoArguments]

InitFile ==
    /\ linesep \in { <<"\n">>, <<"\r", "\n">> }
    /\ files \in [FsPaths(<<NameW>>) -> PreviousNodes \cup {Dir}]
    /\ files[<<NameW, NameF>>].kind # "dir"
    /\ files[<<NameW, NameS>>] \in {Missing, Dir}
    /\ files[<<NameW, NameS, NameF>>].kind # "dir"
    /\ files[<<NameW, NameS>>] = Missing => files[<<NameW, NameS, NameF>>] = Missing
    /\ last_write = NoWrite
    /\ file_result = NoFileCall

FileIdle ==
    /\ linesep = <<"\n">>
    /\ files = [q \in FsPaths(<<NameW>>) |-> Missing]
    /\ last_write = NoWrite
    /\ file_result = NoFileCall

\* write_file(path, content), the one write of the behaviour.
WriteFile(path, content) ==
    /\ last_write = NoWrite
    /\ file_result.tool = Null
    /\ LET w == WriteFileExecute(working_directory, symlinks, files, linesep, path, content)
       IN /\ files' = w.files
          /\ last_write' = [path |-> Resolve(symlinks, working_directory, path.segs),
                            valid |-> ValidatePathSecurity(working_directory, symlinks, path).ok,
                            content |-> content, result |-> w.result]
          /\ file_result' = FileCall("write_file", path, w.result)
    /\ UNCHANGED linesep

\* The calls looked at are a write, or none, and the call after it.
LastCall == file_result.tool \in {Null, "write_file"}

\* read_file(path)
ReadFile(path) ==
    /\ LastCall
    /\ file_result' = FileCall("read_file", path,
                                ReadFileExecute(working_directory, symlinks, files, path))
    /\ UNCHANGED <<linesep, files, last_write>>

\* list_files(path)
ListFiles(path) ==
    /\ LastCall
    /\ \E order \in IterDir(files, Resolve(symlinks, working_directory, path.segs)) :
          file_result' = FileCall("list_files", path,
                                  ListFilesExecute(working_directory, symlinks, files, path,
                                                   order))
    /\ UNCHANGED <<linesep, files, last_write>>

\* search_files(pattern, path, file_extension)
SearchFiles(path, pattern, file_extension) ==
    /\ LastCall
    /\ file_result' =
          [FileCall("search_files", path,
                    SearchFilesExecute(working_directory, symlinks, files, path,
                                       pattern, file_extension))
             EXCEPT !.arguments = [pattern |-> pattern, file_extension |-> file_extension]]
    /\ UNCHANGED <<linesep, files, last_write>>


\* ---------------------------------------------------------------- shell_exec
\* asyncio.wait_for(proc.communicate(), timeout=10), in seconds.
SHELL_TIMEOUT == 10

Whitespace == {" ", "\t", "\n"}

\* IsBlank, were only the empty command refused (not command).
IsEmpty(command) == command = <<>>

\* not command.strip()
IsBlank(command) == \A i \in 1..Len(command) : command[i] \in Whitespace

\* The commands, as sequences of characters.
Commands == { <<>>, <<" ", "\t">>, <<"l", "s">>, <<" ", "x">> }

NoProcess == [state |-> "none", returncode |-> 0]

\* ShellKeys, were a nonzero exit reported as an error.
ShellKeysNonzeroIsError(kind) ==
    IF kind = "success"
    THEN {"success", "stdout", "stderr", "exit_code", "command", "working_directory"}
    ELSE {"error", "command", "working_directory"}

\* The keys of the dict execute returns: the run result, the empty-command
\* error, the launch errors with details, the other errors.
ShellKeys(kind) ==
    IF kind \in {"success", "failure"}
    THEN {"success", "stdout", "stderr", "exit_code", "command", "working_directory"}
    ELSE IF kind = "Command cannot be empty" THEN {"error"}
    ELSE IF kind \in {"Command not found", "Permission denied executing command"}
    THEN {"error", "details", "working_directory"}
    ELSE {"error", "command", "working_directory"}

\* What execute returns: kind is "success" or "failure" for a run result
\* (proc.returncode == 0 or not), the error text otherwise; exit_code is
\* read only where the key is among keys.
ShellResult(kind, code) ==
    [kind |-> kind, exit_code |-> code, keys |-> ShellKeys(kind),
     success |-> kind = "success"]

\* WaitDone, were proc.wait() not awaited.
WaitNotAwaited(p) == TRUE

\* await proc.wait() returns: the process has terminated.
WaitDone(p) == p.state = "exited"

VARIABLES
    sh_pc,                  \* "idle" | "communicate" | "kill" | "wait" | "returned"
    sh_command,             \* the command of the call
    proc,                   \* the subprocess spawned by the call
    kill_sent,              \* proc.kill() has signalled the subprocess
    elapsed,                \* seconds waited in wait_for
    sh_result,              \* what execute returned
    spawned                 \* subprocesses spawned by the call

shellVars == <<sh_pc, sh_command, proc, kill_sent, elapsed, sh_result, spawned>>

InitShell ==
    /\ sh_pc = "idle"
    /\ sh_command = <<>>
    /\ proc = NoProcess
    /\ kill_sent = FALSE
    /\ elapsed = 0
    /\ sh_result = ShellResult("none", 0)
    /\ spawned = 0

\* execute(command) up to its first await: the empty check, and
\* create_subprocess_shell, which spawns the shell or raises.
ShellExecute(command, launch) ==
    /\ sh_pc \in {"idle", "returned"}
    /\ sh_command' = command
    /\ kill_sent' = FALSE
    /\ elapsed' = 0
    /\ IF IsBlank(command)
       THEN /\ sh_result' = ShellResult("Command cannot be empty", 0)
            /\ sh_pc' = "returned"
            /\ proc' = NoProcess
            /\ spawned' = 0
       ELSE IF launch # "spawned"
       THEN /\ sh_result' = ShellResult(launch, 0)
            /\ sh_pc' = "returned"
            /\ proc' = NoProcess
            /\ spawned' = 0
       ELSE /\ sh_result' = ShellResult("none", 0)
            /\ sh_pc' = "communicate"
            /\ proc' = [state |-> "running", returncode |-> 0]
            /\ spawned' = 1

\* A second passes while communicate() is awaited.
Tick ==
    /\ sh_pc = "communicate"
    /\ elapsed < SHELL_TIMEOUT
    /\ elapsed' = elapsed + 1
    /\ UNCHANGED <<sh_pc, sh_command, proc, kill_sent, sh_result, spawned>>

\* The subprocess terminates by itself.
ProcExits(code) ==
    /\ proc.state = "running"
    /\ ~kill_sent
    /\ proc' = [state |-> "exited", returncode |-> code]
    /\ UNCHANGED <<sh_pc, sh_command, kill_sent, elapsed, sh_result, spawned>>

\* The subprocess dies of the signal proc.kill() sent.
ProcKilled ==
    /\ proc.state = "running"
    /\ kill_sent
    /\ proc' = [state |-> "exited", returncode |-> -9]
    /\ UNCHANGED <<sh_pc, sh_command, kill_sent, elapsed, sh_result, spawned>>

\* communicate() returns within the timeout: the subprocess has terminated.
CommunicateReturns ==
    /\ sh_pc = "communicate"
    /\ proc.state = "exited"
    /\ sh_result' = ShellResult(IF proc.returncode = 0 THEN "success" ELSE "failure",
                                proc.returncode)
    /\ sh_pc' = "returned"
    /\ UNCHANGED <<sh_command, proc, kill_sent, elapsed, spawned>>

\* wait_for raises TimeoutError.
TimeoutExpires ==
    /\ sh_pc = "communicate"
    /\ elapsed = SHELL_TIMEOUT
    /\ sh_pc' = "kill"
    /\ UNCHANGED <<sh_command, proc, kill_sent, elapsed, sh_result, spawned>>

\* proc.kill(): the running subprocess is signalled. For a subprocess that
\* has terminated meanwhile the signal is lost, or kill() raises
\* ProcessLookupError, which the outer except Exception turns into a result.
Kill(lookup_error) ==
    /\ sh_pc = "kill"
    /\ IF proc.state = "running"
       THEN /\ kill_sent' = TRUE
            /\ sh_pc' = "wait"
            /\ UNCHANGED sh_result
       ELSE IF lookup_error
       THEN /\ sh_result' = ShellResult("Shell execution failed", 0)
            /\ sh_pc' = "returned"
            /\ UNCHANGED kill_sent
       ELSE /\ sh_pc' = "wait"
            /\ UNCHANGED <<kill_sent, sh_result>>
    /\ UNCHANGED <<sh_command, proc, elapsed, spawned>>

\* await proc.wait() returns, and execute returns the timeout error.
WaitReturns ==
    /\ sh_pc = "wait"
    /\ WaitDone(proc)
    /\ sh_result' = ShellResult("Execution timed out after 10 seconds", 0)
    /\ sh_pc' = "returned"
    /\ UNCHANGED <<sh_command, proc, kill_sent, elapsed, spawned>>

\* ------------------------------------------------------------ the registry
\* The instances of one tool name that are registered in turn.
MaxInstances == 2

\* The names under which tools are registered.
RegistryNames == {"read_file", "shell_exec", "web_search"}

\* tool: [name, id]. register: self._tools[tool.name] = tool
Register(tools, tool) == [tools EXCEPT ![tool.name] = tool.id]

\* The names ToolRegistry._tools holds (id 0: no tool under the name).
ToolNamesOf(tools) == {n \in DOMAIN tools : tools[n] # 0}

\* The argument mappings of execute_tool(name, **kwargs).
KwargsOf(name) ==
    { Mapping(Required(name), TRUE), Mapping({}, TRUE), Mapping(Required(name), FALSE),
      Mapping(Required(name) \cup {"verbose"}, TRUE), Mapping(Required(name) \cup {"name"}, TRUE) }

VARIABLES
    registry,               \* ToolRegistry._tools: name -> the instance registered
    dispatch                \* the last execute_tool call and its outcome

registryVars == <<registry, dispatch>>

NoDispatch ==
    [name |-> Null, kwargs |-> Mapping({}, TRUE), before |-> [n \in RegistryNames |-> 0],
     outcome |-> [raises |-> FALSE, result |-> ErrorResult(<<"none">>), ran |-> Null],
     instance |-> 0]

InitRegistry ==
    /\ registry = [n \in RegistryNames |-> 0]
    /\ dispatch = NoDispatch

RegisterTool(tool) ==
    /\ registry' = Register(registry, tool)
    /\ UNCHANGED dispatch

\* execute_tool(name, **kwargs)
Dispatch(name, kwargs) ==
    \E out \in DispatchCall(ToolNamesOf(registry), FunctionCall(name, kwargs)) :
        /\ dispatch' = [name |-> name, kwargs |-> kwargs, before |-> registry, outcome |-> out,
                        instance |-> IF out.ran # Null THEN registry[out.ran] ELSE 0]
        /\ UNCHANGED registry

\* ------------------------------------------------- the history over restarts
\* Turns of one agent, and turns whose messages the history holds at most.
MaxHistoryTurns == 2

\* Agents constructed one after the other on the same history file.
MaxRuns == 2

\* A history of one turn that an earlier session left in the file.
SeedMessages ==
    <<Message("user", <<"u0">>), Message("assistant", <<"t0", "\n", "\"", "t0", "\"">>)>>

\* What the history file may be when the first agent is constructed.
StoredFiles ==
    { NoFile,
      HistoryFile("unreadable", <<>>),
      HistoryFile("undecodable", <<>>),
      HistoryFile("invalid", <<>>),
      HistoryFile("array", <<>>),
      HistoryFile("no_messages", <<>>),
      SaveHistory(<<>>),
      SaveHistory(SeedMessages) }

\* The batch whose dispatch raises: an argument called name.
RaisingBatch == <<FunctionCall("no_such_tool", Mapping({"name"}, TRUE))>>

VARIABLES
    runs,                   \* agents constructed so far
    previous,               \* the messages in memory when the last agent exited
    cleared_at              \* turns when clear_history ran last; -1: not in this agent

historyVars == <<runs, previous, cleared_at>>

NoPrevious == [known |-> FALSE, messages |-> <<>>]

HistoryIdle ==
    /\ runs = 0
    /\ previous = NoPrevious
    /\ cleared_at = -1

\* No agent runs, and the history file is any of StoredFiles.
InitHistory ==
    /\ messages = <<>>
    /\ history_file \in StoredFiles
    /\ pc = "off"
    /\ working = <<>>
    /\ iterations = 0
    /\ last_complete_response = <<>>
    /\ function_calls = <<>>
    /\ tool_results = <<>>
    /\ answer = <<>>
    /\ ended = "none"
    /\ turns = 0
    /\ modelCalls = 0
    /\ toolBatches = 0
    /\ resultsAppended = 0
    /\ emitted = <<>>
    /\ dispatched = <<>>
    /\ baseLen = 0
    /\ lastText = <<>>
    /\ errorPending = FALSE
    /\ HistoryIdle

\* Nothing is left of the turns of an agent that is gone.
NoTurn ==
    /\ working' = <<>>
    /\ iterations' = 0
    /\ last_complete_response' = <<>>
    /\ function_calls' = <<>>
    /\ tool_results' = <<>>
    /\ answer' = <<>>
    /\ ended' = "none"
    /\ turns' = 0
    /\ modelCalls' = 0
    /\ toolBatches' = 0
    /\ resultsAppended' = 0
    /\ emitted' = <<>>
    /\ dispatched' = <<>>
    /\ baseLen' = 0
    /\ lastText' = <<>>
    /\ errorPending' = FALSE

\* CodingAgent.__init__: self.messages = [], then load_history. An exception
\* of load_history leaves the constructor: there is no agent.
Construct ==
    /\ pc \in {"off", "crashed"}
    /\ runs < MaxRuns
    /\ runs' = runs + 1
    /\ LET loaded == LoadHistory(history_file, <<>>)
       IN /\ messages' = loaded.messages
          /\ pc' = IF loaded.raises THEN "crashed" ELSE "idle"
    /\ cleared_at' = -1
    /\ NoTurn
    /\ UNCHANGED <<history_file, previous>>

\* The session ends between two turns: the process is gone.
Exit ==
    /\ pc \in {"idle", "done"}
    /\ previous' = [known |-> TRUE, messages |-> messages]
    /\ messages' = <<>>
    /\ pc' = "off"
    /\ cleared_at' = -1
    /\ NoTurn
    /\ UNCHANGED <<history_file, runs>>

\* ClearHistory, were the file left where it is.
ClearHistoryKeepsFile ==
    /\ pc \in {"idle", "done"}
    /\ messages' = <<>>
    /\ cleared_at' = turns
    /\ UNCHANGED <<history_file, pc, working, iterations, last_complete_response,
                   function_calls, tool_results, answer, ended, turns, modelCalls,
                   toolBatches, resultsAppended, emitted, dispatched, baseLen, lastText,
                   errorPending, runs, previous>>

\* The clear command: clear_history empties the list and unlinks the file
\* if it exists.
ClearHistory ==
    /\ pc \in {"idle", "done"}
    /\ messages' = <<>>
    /\ history_file' = NoFile
    /\ cleared_at' = turns
    /\ UNCHANGED <<pc, working, iterations, last_complete_response, function_calls,
                   tool_results, answer, ended, turns, modelCalls, toolBatches,
                   resultsAppended, emitted, dispatched, baseLen, lastText, errorPending,
                   runs, previous>>

\* ------------------------------------------------ the registry's dictionary
\* The register calls made on one registry.
MaxRegistrations == 3

\* ToolRegistry._tools as the items of the dict, in insertion order; a tool
\* is [name, id], id telling the instances registered under one name apart.
NoTool == 0

\* SetItem, were the tool appended to a list of tools.
SetItemAppends(items, tool) == Append(items, tool)

\* self._tools[tool.name] = tool: the value under an existing key is
\* replaced where it is, a new key is added at the end.
SetItem(items, tool) ==
    IF \E i \in 1..Len(items) : items[i].name = tool.name
    THEN [i \in 1..Len(items) |-> IF items[i].name = tool.name THEN tool ELSE items[i]]
    ELSE Append(items, tool)

\* get_tool: self._tools.get(name), NoTool for None.
GetTool(items, name) ==
    IF \E i \in 1..Len(items) : items[i].name = name
    THEN items[CHOOSE i \in 1..Len(items) : items[i].name = name].id
    ELSE NoTool

\* get_tool_names: list(self._tools.keys())
GetToolNames(items) == [i \in 1..Len(items) |-> items[i].name]

\* get_function_declarations: one declaration per value; a declaration
\* carries the name of its tool.
GetFunctionDeclarations(items) ==
    [i \in 1..Len(items) |-> [name |-> items[i].name, tool |-> items[i].id]]

VARIABLES
    tool_items,             \* ToolRegistry._tools
    registrations,          \* the tools registered, in the order of the calls
    executed                \* the last execute_tool call: the name, the tool it ran

dictVars == <<tool_items, registrations, executed>>

NothingExecuted == [name |-> Null, tool |-> NoTool, at |-> 0]

DictIdle == tool_items = <<>> /\ registrations = <<>> /\ executed = NothingExecuted

\* register(tool)
RegisterItem(tool) ==
    /\ Len(registrations) < MaxRegistrations
    /\ tool_items' = SetItem(tool_items, tool)
    /\ registrations' = Append(registrations, tool)
    /\ UNCHANGED executed

\* execute_tool(name): the tool get_tool returns is the one executed.
ExecuteItem(name) ==
    /\ executed' = [name |-> name, tool |-> GetTool(tool_items, name),
                    at |-> Len(registrations)]
    /\ UNCHANGED <<tool_items, registrations>>

\* ----------------------------------------------------------------- web_search
\* How far beyond the limits the counts given go.
MaxCountBeyond == 3

\* execute's default for count, and the limits it keeps count in.
DEFAULT_COUNT == 10
MIN_COUNT == 1
MAX_COUNT == 20

\* The count argument: omitted, or an integer.
NoCount == [given |-> FALSE, value |-> 0]

CountArgs ==
    {NoCount} \cup { [given |-> TRUE, value |-> n] :
                        n \in (MIN_COUNT - MaxCountBeyond)..(MAX_COUNT + MaxCountBeyond) }

\* The queries: empty, whitespace, a word.
Queries == { <<>>, <<" ">>, <<"q">> }

\* What the provider answers: a 200 with JSON, another status, a timeout, a
\* failed connection, a 200 whose body is no JSON.
Replies == {"200", "status", "timeout", "connection", "no_json"}

\* Clamp, were count sent as it was given.
ClampNone(count) == count

\* if count < 1: count = 1 elif count > 20: count = 20
Clamp(count) ==
    IF count < MIN_COUNT THEN MIN_COUNT
    ELSE IF count > MAX_COUNT THEN MAX_COUNT
    ELSE count

NoRequest == [sent |-> FALSE, q |-> <<>>, count |-> 0]

\* WebSearchTool.execute: the request made to the provider, if any, and the
\* result returned.
WebSearchExecute(api_key, query, count_arg, reply) ==
    LET count == IF count_arg.given THEN count_arg.value ELSE DEFAULT_COUNT
        request == [sent |-> TRUE, q |-> query, count |-> Clamp(count)]
    IN IF IsBlank(query)
       THEN [request |-> NoRequest, success |-> FALSE,
             error |-> "Search query cannot be empty"]
       ELSE IF ~api_key
       THEN [request |-> NoRequest, success |-> FALSE,
             error |-> "Brave Search API key not found"]
       ELSE CASE reply = "200" -> [request |-> request, success |-> TRUE, error |-> Null]
              [] reply = "status" ->
                   [request |-> request, success |-> FALSE,
                    error |-> "Brave Search API returned status code"]
              [] reply = "timeout" ->
                   [request |-> request, success |-> FALSE,
                    error |-> "Search request timed out after 10 seconds"]
              [] reply = "connection" ->
                   [request |-> request, success |-> FALSE,
                    error |-> "Failed to connect to Brave Search API"]
              [] reply = "no_json" ->
                   [request |-> request, success |-> FALSE,
                    error |-> "Failed to parse JSON response"]

VARIABLES
    brave_api_key,          \* WebSearchTool.api_key is set
    web_call                \* the last web_search call: arguments, request, result

webVars == <<brave_api_key, web_call>>

NoWebCall ==
    [made |-> FALSE, query |-> <<>>, count |-> NoCount,
     outcome |-> [request |-> NoRequest, success |-> FALSE, error |-> Null]]

WebIdle == brave_api_key = TRUE /\ web_call = NoWebCall

InitWeb == brave_api_key \in BOOLEAN /\ web_call = NoWebCall

\* web_search(query, count)
WebSearch(query, count_arg, reply) ==
    /\ web_call' = [made |-> TRUE, query |-> query, count |-> count_arg,
                    outcome |-> WebSearchExecute(brave_api_key, query, count_arg, reply)]
    /\ UNCHANGED brave_api_key

\* ------------------------------------------------------ directory listings
\* The list_files calls made on one directory tree.
MaxListings == 2

VARIABLES
    listings                \* the list_files calls made: path, iterdir order, result

listVars == <<listings>>

ListIdle == listings = <<>>

\* A tree with regular files, directories and special entries.
InitList ==
    /\ linesep = <<"\n">>
    /\ files \in [FsPaths(<<NameW>>) -> {Missing, File(<<97>>), Dir, Special}]
    /\ files[<<NameW, NameS>>] # Dir => files[<<NameW, NameS, NameF>>] = Missing
    /\ last_write = NoWrite
    /\ file_result = NoFileCall
    /\ listings = <<>>

\* list_files(path) on the unchanged tree.
ListDirectory(path) ==
    /\ Len(listings) < MaxListings
    /\ \E order \in IterDir(files, Resolve(symlinks, working_directory, path.segs)) :
          listings' = Append(listings,
                             [path |-> Resolve(symlinks, working_directory, path.segs),
                              order |-> order,
                              result |-> ListFilesExecute(working_directory, symlinks, files,
                                                          path, order)])
    /\ UNCHANGED fileVars

\* ------------------------------------------------ a batch of file tool calls
\* A call of a file tool as the model emits it.
FileToolCall(tool, path, content) == [name |-> tool, path |-> path, content |-> content]

\* The batches: a write and a later read of the same path, with nothing, a
\* listing or another write between them.
FileBatches ==
    { <<FileToolCall("write_file", p, t), FileToolCall("read_file", p, <<>>)>> :
        p \in FileCandidates, t \in Texts }
    \cup
    { <<FileToolCall("write_file", p, t),
        FileToolCall("list_files", [kind |-> "relative", segs |-> <<>>], <<>>),
        FileToolCall("read_file", p, <<>>)>> :
        p \in FileCandidates, t \in Texts }
    \cup
    { <<FileToolCall("write_file", p, t), FileToolCall("write_file", q, <<"a">>),
        FileToolCall("read_file", p, <<>>)>> :
        p \in FileCandidates, q \in FileCandidates, t \in Texts }

VARIABLES
    batch,                  \* _execute_tool_calls' function_calls, file tool calls
    batch_results           \* its tool_results

batchVars == <<batch, batch_results>>

BatchIdle == batch = <<>> /\ batch_results = <<>>

InitBatch == batch \in FileBatches /\ batch_results = <<>>

\* One pass of _execute_tool_calls' loop over a batch of file tool calls: the
\* tool runs on the file system the earlier calls left.
DispatchFileCall ==
    /\ Len(batch_results) < Len(batch)
    /\ \E order \in IterDir(files, Resolve(symlinks, working_directory,
                                           NextCall(batch, batch_results).path.segs)) :
       LET fc == NextCall(batch, batch_results)
           w == WriteFileExecute(working_directory, symlinks, files, linesep,
                                 fc.path, fc.content)
           response ==
               CASE fc.name = "write_file" -> w.result
                 [] fc.name = "read_file" ->
                        ReadFileExecute(working_directory, symlinks, files, fc.path)
                 [] fc.name = "list_files" ->
                        ListFilesExecute(working_directory, symlinks, files, fc.path, order)
       IN /\ files' = IF fc.name = "write_file" THEN w.files ELSE files
          /\ batch_results' = Append(batch_results, [name |-> fc.name, response |-> response])
    /\ UNCHANGED <<batch, linesep, last_write, file_result>>

\* ------------------------------------------------------ malformed responses
\* What _call_gemini hands to _parse_gemini_response. shape: "no_candidates"
\* (the attribute is missing, None or empty), "no_content" (the candidate's
\* content is missing or None), "empty_parts" (parts is missing or empty),
\* "no_parts" (parts is None: iterating it raises TypeError), "bad_part"
\* (inspecting the part fails_at raises, at its text or at its function
\* call). printable: str(response) is not empty and not the class's name.
Shaped(shape, parts, fails_at, stage, printable) ==
    [shape |-> shape, parts |-> parts, fails_at |-> fails_at, stage |-> stage,
     printable |-> printable]

MalformedResponses ==
    { Shaped(shape, <<>>, 0, "none", printable) :
        shape \in {"no_candidates", "no_content", "empty_parts", "no_parts"},
        printable \in BOOLEAN }
    \cup UNION { { Shaped("bad_part", Response(<<"t1">>, calls), at, stage, printable) :
                     at \in 1..(1 + Len(calls)), stage \in {"text", "function_call"},
                     printable \in BOOLEAN } :
                 calls \in {<<>>, RepeatBatch, RepeatBatch \o RepeatBatch} }

ParsingError == "Response parsing error, raw response: <response>"

\* The lists at the moment the exception is raised in the try block.
ParsedBefore(response) ==
    IF response.shape # "bad_part" THEN [text_responses |-> <<>>, function_calls |-> <<>>]
    ELSE LET before == SubSeq(response.parts, 1, response.fails_at - 1)
             upto == SubSeq(response.parts, 1, response.fails_at)
         IN [text_responses |-> ParseTexts(IF response.stage = "text" THEN before ELSE upto),
             function_calls |-> ParseCalls(before)]

\* _parse_gemini_response, were the try block without its handler.
ParseGeminiResponseNoHandler(response) ==
    LET got == ParsedBefore(response)
    IN [raises |-> response.shape \in {"no_parts", "bad_part"},
        text_responses |-> got.text_responses, function_calls |-> got.function_calls]

\* _parse_gemini_response: the walk over the first candidate's parts in a
\* try block; the handler adds the diagnostic text to what was collected.
ParseGeminiResponse(response) ==
    LET got == ParsedBefore(response)
        raised == response.shape \in {"no_parts", "bad_part"}
    IN [raises |-> FALSE,
        text_responses |->
            got.text_responses
            \o (IF raised /\ response.printable THEN <<ParsingError>> ELSE <<>>),
        function_calls |-> got.function_calls]

VARIABLES
    parsed                  \* the malformed response parsed last in this turn

parseVars == <<parsed>>

NotParsed == [shape |-> "none", raises |-> FALSE, text_responses |-> <<>>]

ParseIdle == parsed = NotParsed

\* process_message in a session whose responses may be malformed.
ProcessMessageParsed(user_input) ==
    /\ ProcessMessage(user_input)
    /\ parsed' = NotParsed

\* The while condition holds, and _call_gemini returns a malformed response.
ModelRespondsMalformed(response) ==
    /\ pc = "model"
    /\ WhileCondition(iterations)
    /\ modelCalls' = modelCalls + 1
    /\ LET p == ParseGeminiResponse(response)
           last == IF p.text_responses # <<>> THEN Join(p.text_responses)
                   ELSE last_complete_response
       IN /\ parsed' = [shape |-> response.shape, raises |-> p.raises,
                        text_responses |-> p.text_responses]
          /\ lastText' = IF p.text_responses # <<>> THEN Join(p.text_responses) ELSE lastText
          /\ IF p.raises
             THEN Unexpected("parse_raised")
             ELSE IF p.function_calls = <<>>
             THEN Finish(last, iterations + 1, "finished")
             ELSE /\ iterations' = iterations + 1
                  /\ last_complete_response' = last
                  /\ emitted' = emitted \o p.function_calls
                  /\ function_calls' = p.function_calls
                  /\ tool_results' = <<>>
                  /\ pc' = "tools"
                  /\ UNCHANGED <<messages, history_file, answer, ended, working,
                                 dispatched, baseLen>>
    /\ errorPending' = FALSE
    /\ UNCHANGED <<turns, toolBatches, resultsAppended>>

\* ------------------------------------------- changing the working directory
\* Calls of change_working_directory in one session.
MaxChanges == 2

DefaultHistoryFile == "agent_history.json"

\* The resolved directories change_working_directory is called with.
Directories == { <<NameW>>, <<NameW2>>, <<NameH, NameW>> }

\* The tools constructed with a working directory.
RootedNames == FileToolNames \cup {"shell_exec"}

\* ToolRegistry(): no tool under any name.
EmptyRegistry == [n \in RegisteredNames |-> [registered |-> FALSE, root |-> <<>>]]

\* _setup_tools: the file tools and the shell tool are constructed with the
\* agent's working directory, the web search tool without, and each is
\* registered under its name.
SetupTools(tools, root) ==
    [n \in DOMAIN tools |->
        IF n \in RegisteredNames
        THEN [registered |-> TRUE, root |-> IF n \in RootedNames THEN root ELSE <<>>]
        ELSE tools[n]]

\* The paths and the command later tool calls are made with.
RootCandidates ==
    { [kind |-> "relative", segs |-> q] :
        q \in { <<NameS>>, <<DotDot, NameW>>, <<DotDot, NameW2>>, <<DotDot, DotDot>> } }

VARIABLES
    agent_directory,        \* CodingAgent.working_directory
    history_path,           \* CodingAgent.history_file, the path
    tool_roots,             \* CodingAgent.tool_registry: the tools and their working_directory
    root_call,              \* the last dispatch of a file tool or the shell tool
    changes                 \* calls of change_working_directory that returned

rootVars == <<agent_directory, history_path, tool_roots, root_call, changes>>

NoRootCall ==
    [name |-> Null, candidate |-> [kind |-> "relative", segs |-> <<>>],
     validation |-> Denied, cwd |-> <<>>, after |-> 0]

\* The agent as constructed on the default working directory.
RootIdle ==
    /\ agent_directory = <<NameW>>
    /\ history_path = [dir |-> <<NameW>>, name |-> DefaultHistoryFile]
    /\ tool_roots = SetupTools(EmptyRegistry, <<NameW>>)
    /\ root_call = NoRootCall
    /\ changes = 0

\* ChangeWorkingDirectory, were the tools not constructed again.
ChangeWorkingDirectoryKeepsTools(new_path, made, stored) ==
    /\ made
    /\ new_path = agent_directory => stored = history_file
    /\ agent_directory' = new_path
    /\ history_path' = [dir |-> new_path, name |-> history_path.name]
    /\ history_file' = stored
    /\ changes' = changes + 1
    /\ UNCHANGED <<tool_roots, root_call>>
    /\ UNCHANGED <<messages, pc, working, iterations, last_complete_response, function_calls,
                   tool_results, answer, ended, turns, modelCalls, toolBatches,
                   resultsAppended, emitted, dispatched, baseLen, lastText, errorPending>>

\* change_working_directory(new_directory). new_path: the resolved
\* directory; made: mkdir did not raise (it raises when the path is a file,
\* and nothing is assigned then); stored: the history file that the new
\* directory holds.
ChangeWorkingDirectory(new_path, made, stored) ==
    /\ made
    /\ new_path = agent_directory => stored = history_file
    /\ agent_directory' = new_path
    /\ history_path' = [dir |-> new_path, name |-> history_path.name]
    /\ history_file' = stored
    /\ tool_roots' = SetupTools(EmptyRegistry, new_path)
    /\ changes' = changes + 1
    /\ UNCHANGED root_call
    /\ UNCHANGED <<messages, pc, working, iterations, last_complete_response, function_calls,
                   tool_results, answer, ended, turns, modelCalls, toolBatches,
                   resultsAppended, emitted, dispatched, baseLen, lastText, errorPending>>

\* The registry dispatches a call to a file tool, which validates the path
\* against its working_directory, or to the shell tool, which runs the
\* command in its working_directory.
DispatchRooted(name, candidate) ==
    /\ tool_roots[name].registered
    /\ root_call' =
          [name |-> name, candidate |-> candidate,
           validation |-> IF name \in FileToolNames
                          THEN ValidatePathSecurity(tool_roots[name].root, symlinks, candidate)
                          ELSE Denied,
           cwd |-> IF name = "shell_exec" THEN tool_roots[name].root ELSE <<>>,
           after |-> changes]
    /\ UNCHANGED <<agent_directory, history_path, tool_roots, changes>>

\* ------------------------------------------------ the window on the history
\* Turns that earlier sessions left in the history.
MaxStoredTurns == 6

\* The history after t turns: user and assistant messages in turn, the i-th
\* message holding i tokens.
StoredTurns(t) ==
    [i \in 1..(2 * t) |->
        Message(IF i % 2 = 1 THEN "user" ELSE "assistant", [j \in 1..i |-> "m"])]

\* An agent constructed on a history file of up to MaxStoredTurns turns.
InitWindow ==
    /\ \E t \in 0..MaxStoredTurns : messages = StoredTurns(t)
    /\ history_file = SaveHistory(messages)
    /\ pc = "idle"
    /\ working = <<>>
    /\ iterations = 0
    /\ last_complete_response = <<>>
    /\ function_calls = <<>>
    /\ tool_results = <<>>
    /\ answer = <<>>
    /\ ended = "none"
    /\ turns = 0
    /\ modelCalls = 0
    /\ toolBatches = 0
    /\ resultsAppended = 0
    /\ emitted = <<>>
    /\ dispatched = <<>>
    /\ baseLen = 0
    /\ lastText = <<>>
    /\ errorPending = FALSE

\* ------------------------------------------------------------ failing saves
Disks == {"ok", "readonly", "full"}

\* Between two turns the disk fills up, is remounted, or is freed.
DiskChanges(state) ==
    /\ pc \in {"idle", "done"}
    /\ state # disk
    /\ disk' = state

\* ------------------------------------------------------ awaited operations
\* react_loop is one coroutine. A model call and a tool dispatch are awaited:
\* the coroutine is suspended from the start of the operation to its return.
VARIABLES
    awaiting,               \* what the coroutine is suspended on: none, model or tool
    in_flight               \* the operations started and not yet returned

flightVars == <<awaiting, in_flight>>

FlightIdle == awaiting = "none" /\ in_flight = <<>>

\* Await, were the operation only scheduled (a task that nobody awaits).
NotAwaited(operation) == "none"

\* await: the coroutine goes on only when the operation has returned.
Await(operation) == operation

\* The operation the coroutine awaits returns.
Returned(flight) == SubSeq(flight, 1, Len(flight) - 1)

\* react_loop starts _call_gemini.
StartModelCall ==
    /\ pc = "model"
    /\ awaiting = "none"
    /\ awaiting' = Await("model")
    /\ in_flight' = Append(in_flight, "model")
    /\ UNCHANGED agentVars

\* _execute_tool_calls starts the dispatch of the next call of the batch.
StartToolCall ==
    /\ pc = "tools"
    /\ awaiting = "none"
    /\ awaiting' = Await("tool")
    /\ in_flight' = Append(in_flight, "tool")
    /\ UNCHANGED agentVars

\* The awaited model call fails.
ModelCallReturnsError ==
    /\ awaiting = "model"
    /\ ModelCallFails
    /\ awaiting' = "none"
    /\ in_flight' = Returned(in_flight)

\* The awaited model call returns a response.
ModelCallReturns(texts, calls) ==
    /\ awaiting = "model"
    /\ ModelResponds(texts, calls)
    /\ awaiting' = "none"
    /\ in_flight' = Returned(in_flight)

\* The awaited dispatch returns (or raises).
ToolCallReturns ==
    /\ awaiting = "tool"
    /\ ExecuteToolCall
    /\ awaiting' = "none"
    /\ in_flight' = Returned(in_flight)

\* cli awaits process_message: the next turn starts when the last one is over.
NextMessage(user_input) ==
    /\ awaiting = "none"
    /\ ProcessMessage(user_input)
    /\ UNCHANGED flightVars

\* ---------------------------------------------------------- specifications
vars == <<agentVars, disk, historyVars, pathVars, fileVars, shellVars, registryVars, flightVars, batchVars, listVars, webVars, dictVars, parseVars, rootVars>>

\* The disk takes every write.
DiskOk == disk = "ok"

Init == InitAgent /\ DiskOk /\ HistoryIdle /\ PathIdle /\ FileIdle /\ InitShell /\ InitRegistry /\ FlightIdle /\ BatchIdle /\ ListIdle /\ WebIdle /\ DictIdle /\ ParseIdle /\ RootIdle

notAgent == <<disk, historyVars, pathVars, fileVars, shellVars, registryVars, flightVars, batchVars, listVars, webVars, dictVars, parseVars, rootVars>>

Next ==
    \/ (\E u \in UserInputs : turns < MaxTurns /\ ProcessMessage(u)) /\ UNCHANGED notAgent
    \/ ModelCallFails /\ UNCHANGED notAgent
    \/ (\E texts \in TextParts : ModelResponds(texts, <<>>)) /\ UNCHANGED notAgent
    \/ (\E texts \in TextParts, calls \in BatchChoices(iterations) :
            ModelResponds(texts, calls)) /\ UNCHANGED notAgent
    \/ ExecuteToolCall /\ UNCHANGED notAgent

\* The ReAct loop of one session.
Spec == Init /\ [][Next]_vars

PathInit == InitAgent /\ DiskOk /\ HistoryIdle /\ InitPath /\ FileIdle /\ InitShell /\ InitRegistry /\ FlightIdle /\ BatchIdle /\ ListIdle /\ WebIdle /\ DictIdle /\ ParseIdle /\ RootIdle

PathNext ==
    (\E tool \in FileToolNames, candidate \in Candidates : Validate(tool, candidate))
        /\ UNCHANGED <<agentVars, disk, historyVars, fileVars, shellVars, registryVars, flightVars, batchVars, listVars, webVars, dictVars, parseVars, rootVars>>

\* Path validation under every working directory and layout.
SpecPath == PathInit /\ [][PathNext]_vars

FileInit == InitAgent /\ DiskOk /\ HistoryIdle /\ PathIdle /\ InitFile /\ InitShell /\ InitRegistry /\ FlightIdle /\ BatchIdle /\ ListIdle /\ WebIdle /\ DictIdle /\ ParseIdle /\ RootIdle

notFile == <<agentVars, disk, historyVars, pathVars, shellVars, registryVars, flightVars, batchVars, listVars, webVars, dictVars, parseVars, rootVars>>

FileNext ==
    \/ (\E path \in FileCandidates \cup DeniedCandidates, content \in Texts :
            WriteFile(path, content)) /\ UNCHANGED notFile
    \/ (\E path \in FileCandidates \cup DeniedCandidates : ReadFile(path))
           /\ UNCHANGED notFile
    \/ (\E path \in FileCandidates \cup DirCandidates \cup DeniedCandidates :
            ListFiles(path)) /\ UNCHANGED notFile
    \/ (\E path \in DirCandidates \cup DeniedCandidates, pattern \in Patterns,
            file_extension \in Extensions :
            SearchFiles(path, pattern, file_extension)) /\ UNCHANGED notFile

\* write_file and read_file on one file system.
SpecFile == FileInit /\ [][FileNext]_vars

notShell == <<agentVars, disk, historyVars, pathVars, fileVars, registryVars, flightVars, batchVars, listVars, webVars, dictVars, parseVars, rootVars>>

Launches == {"spawned", "Command not found", "Permission denied executing command",
             "Shell execution failed"}

ShellNext ==
    \/ (\E command \in Commands, launch \in Launches : ShellExecute(command, launch))
           /\ UNCHANGED notShell
    \/ Tick /\ UNCHANGED notShell
    \/ (\E code \in {0, 1} : ProcExits(code)) /\ UNCHANGED notShell
    \/ ProcKilled /\ UNCHANGED notShell
    \/ CommunicateReturns /\ UNCHANGED notShell
    \/ TimeoutExpires /\ UNCHANGED notShell
    \/ (\E lookup_error \in BOOLEAN : Kill(lookup_error)) /\ UNCHANGED notShell
    \/ WaitReturns /\ UNCHANGED notShell

\* One shell_exec tool and the subprocess of its call.
SpecShell == Init /\ [][ShellNext]_vars

notRegistry == <<agentVars, disk, historyVars, pathVars, fileVars, shellVars, flightVars, batchVars, listVars, webVars, dictVars, parseVars, rootVars>>

RegistryNext ==
    \/ (\E n \in RegistryNames, id \in 1..MaxInstances :
            RegisterTool([name |-> n, id |-> id])) /\ UNCHANGED notRegistry
    \/ (\E n \in RegistryNames \cup {"no_such_tool"} :
            \E kwargs \in KwargsOf(n) : Dispatch(n, kwargs)) /\ UNCHANGED notRegistry

\* One ToolRegistry: registrations and dispatches.
SpecRegistry == Init /\ [][RegistryNext]_vars

DictNext ==
    \/ (\E n \in RegistryNames, id \in 1..MaxInstances :
            RegisterItem([name |-> n, id |-> id]))
           /\ UNCHANGED <<agentVars, disk, historyVars, pathVars, fileVars, shellVars,
                          registryVars, flightVars, batchVars, listVars, webVars, parseVars, rootVars>>
    \/ (\E n \in RegistryNames \cup {"no_such_tool"} : ExecuteItem(n))
           /\ UNCHANGED <<agentVars, disk, historyVars, pathVars, fileVars, shellVars,
                          registryVars, flightVars, batchVars, listVars, webVars, parseVars, rootVars>>

\* One ToolRegistry: its dictionary under register calls and lookups.
SpecDict == Init /\ [][DictNext]_vars

DiskInit ==
    InitAgent /\ disk \in Disks /\ HistoryIdle /\ PathIdle /\ FileIdle /\ InitShell /\ InitRegistry
        /\ FlightIdle /\ BatchIdle /\ ListIdle /\ WebIdle /\ DictIdle /\ ParseIdle /\ RootIdle

notDisk == <<historyVars, pathVars, fileVars, shellVars, registryVars, flightVars, batchVars, listVars, webVars, dictVars, parseVars, rootVars>>

DiskNext ==
    \/ (turns < MaxHistoryTurns /\ ProcessMessage(<<"u1">>)) /\ UNCHANGED <<disk, notDisk>>
    \/ (\E state \in Disks : DiskChanges(state)) /\ UNCHANGED <<agentVars, notDisk>>
    \/ ModelCallFails /\ UNCHANGED <<disk, notDisk>>
    \/ (\E texts \in TextParts : ModelResponds(texts, <<>>)) /\ UNCHANGED <<disk, notDisk>>
    \/ ModelResponds(<<"t1">>, RepeatBatch) /\ UNCHANGED <<disk, notDisk>>
    \/ ModelResponds(<<>>, RaisingBatch) /\ UNCHANGED <<disk, notDisk>>
    \/ ExecuteToolCall /\ UNCHANGED <<disk, notDisk>>

\* Turns of one session on a disk that may refuse the save.
SpecDisk == DiskInit /\ [][DiskNext]_vars

WebInit ==
    InitAgent /\ DiskOk /\ HistoryIdle /\ PathIdle /\ FileIdle /\ InitShell /\ InitRegistry
        /\ FlightIdle /\ BatchIdle /\ ListIdle /\ InitWeb /\ DictIdle /\ ParseIdle /\ RootIdle

WebNext ==
    (\E query \in Queries, count_arg \in CountArgs, reply \in Replies :
        WebSearch(query, count_arg, reply))
        /\ UNCHANGED <<agentVars, disk, historyVars, pathVars, fileVars, shellVars,
                       registryVars, flightVars, batchVars, listVars, dictVars, parseVars, rootVars>>

\* web_search called with every query and count.
SpecWeb == WebInit /\ [][WebNext]_vars

ListInit ==
    InitAgent /\ DiskOk /\ HistoryIdle /\ PathIdle /\ InitList /\ InitShell /\ InitRegistry
        /\ FlightIdle /\ BatchIdle /\ WebIdle /\ DictIdle /\ ParseIdle /\ RootIdle

ListNext ==
    (\E path \in DirCandidates \cup {[kind |-> "relative", segs |-> <<NameF>>]} :
        ListDirectory(path))
        /\ UNCHANGED <<agentVars, disk, historyVars, pathVars, shellVars, registryVars,
                       flightVars, batchVars, webVars, dictVars, parseVars, rootVars>>

\* list_files called again and again on one directory tree.
SpecList == ListInit /\ [][ListNext]_vars

BatchInit ==
    InitAgent /\ DiskOk /\ HistoryIdle /\ PathIdle /\ InitFile /\ InitShell /\ InitRegistry
        /\ FlightIdle /\ InitBatch /\ ListIdle /\ WebIdle /\ DictIdle /\ ParseIdle /\ RootIdle

BatchNext ==
    DispatchFileCall
        /\ UNCHANGED <<agentVars, disk, historyVars, pathVars, shellVars, registryVars,
                       flightVars, listVars, webVars, dictVars, parseVars, rootVars>>

\* One batch of file tool calls dispatched in order on one file system.
SpecBatch == BatchInit /\ [][BatchNext]_vars

notFlight == <<disk, historyVars, pathVars, fileVars, shellVars, registryVars, batchVars, listVars, webVars, dictVars, parseVars, rootVars>>

FlightNext ==
    \/ (\E u \in UserInputs : turns < MaxTurns /\ NextMessage(u)) /\ UNCHANGED notFlight
    \/ StartModelCall /\ UNCHANGED notFlight
    \/ ModelCallReturnsError /\ UNCHANGED notFlight
    \/ (\E texts \in TextParts : ModelCallReturns(texts, <<>>)) /\ UNCHANGED notFlight
    \/ (\E calls \in BatchChoices(iterations) : ModelCallReturns(<<"t1">>, calls))
           /\ UNCHANGED notFlight
    \/ StartToolCall /\ UNCHANGED notFlight
    \/ ToolCallReturns /\ UNCHANGED notFlight

\* The ReAct loop with the start and the return of every awaited operation.
SpecFlight == Init /\ [][FlightNext]_vars

HistoryInit == InitHistory /\ DiskOk /\ PathIdle /\ FileIdle /\ InitShell /\ InitRegistry /\ FlightIdle /\ BatchIdle /\ ListIdle /\ WebIdle /\ DictIdle /\ ParseIdle /\ RootIdle

notHistory == <<disk, pathVars, fileVars, shellVars, registryVars, flightVars, batchVars, listVars, webVars, dictVars, parseVars, rootVars>>

HistoryNext ==
    \/ Construct /\ UNCHANGED notHistory
    \/ Exit /\ UNCHANGED notHistory
    \/ ClearHistory /\ UNCHANGED notHistory
    \/ (\E u \in UserInputs :
            /\ turns < MaxHistoryTurns
            /\ Len(messages) < MaxHistoryTurns + 2
            /\ ProcessMessage(u)) /\ UNCHANGED <<historyVars, notHistory>>
    \/ ModelCallFails /\ UNCHANGED <<historyVars, notHistory>>
    \/ (\E texts \in TextParts : ModelResponds(texts, <<>>))
           /\ UNCHANGED <<historyVars, notHistory>>
    \/ ModelResponds(<<>>, RaisingBatch) /\ UNCHANGED <<historyVars, notHistory>>
    \/ ExecuteToolCall /\ UNCHANGED <<historyVars, notHistory>>

\* Sessions of agents constructed one after the other on one history file.
SpecHistory == HistoryInit /\ [][HistoryNext]_vars

notParse == <<disk, historyVars, pathVars, fileVars, shellVars, registryVars, flightVars, batchVars, listVars, webVars, dictVars, rootVars>>

ParseNext ==
    \/ (\E u \in UserInputs : turns < MaxTurns /\ ProcessMessageParsed(u)) /\ UNCHANGED notParse
    \/ ModelCallFails /\ UNCHANGED <<parseVars, notParse>>
    \/ (\E texts \in TextParts : ModelResponds(texts, <<>>)) /\ UNCHANGED <<parseVars, notParse>>
    \/ ModelResponds(<<"t2">>, RepeatBatch) /\ UNCHANGED <<parseVars, notParse>>
    \/ (\E response \in MalformedResponses : ModelRespondsMalformed(response))
           /\ UNCHANGED notParse
    \/ ExecuteToolCall /\ UNCHANGED <<parseVars, notParse>>

\* Turns of a session in which the provider may answer with malformed
\* responses.
SpecParse == Init /\ [][ParseNext]_vars

notRoot == <<disk, historyVars, pathVars, fileVars, shellVars, registryVars, flightVars, batchVars, listVars, webVars, dictVars, parseVars>>

RootNext ==
    \/ (\E u \in UserInputs : turns < MaxTurns /\ ProcessMessage(u))
           /\ UNCHANGED <<rootVars, notRoot>>
    \/ ModelCallFails /\ UNCHANGED <<rootVars, notRoot>>
    \/ (\E texts \in TextParts : ModelResponds(texts, <<>>)) /\ UNCHANGED <<rootVars, notRoot>>
    \/ (\E new_path \in Directories, made \in BOOLEAN,
            stored \in {history_file, NoFile, SaveHistory(SeedMessages)} :
            /\ changes < MaxChanges
            /\ pc \in {"idle", "done"}
            /\ ChangeWorkingDirectory(new_path, made, stored)) /\ UNCHANGED notRoot
    \/ (\E name \in RootedNames, candidate \in RootCandidates :
            DispatchRooted(name, candidate)) /\ UNCHANGED <<agentVars, notRoot>>

\* A session in which the working directory is changed between turns.
SpecRoot == Init /\ [][RootNext]_vars

WindowInit ==
    InitWindow /\ DiskOk /\ HistoryIdle /\ PathIdle /\ FileIdle /\ InitShell /\ InitRegistry
        /\ FlightIdle /\ BatchIdle /\ ListIdle /\ WebIdle /\ DictIdle /\ ParseIdle /\ RootIdle

WindowNext ==
    \/ (\E u \in UserInputs : turns <= MaxTurns /\ ProcessMessage(u)) /\ UNCHANGED notAgent
    \/ ModelCallFails /\ UNCHANGED notAgent
    \/ (\E texts \in TextParts : ModelResponds(texts, <<>>)) /\ UNCHANGED notAgent
    \/ ModelResponds(<<"t1">>, RepeatBatch) /\ UNCHANGED notAgent
    \/ ExecuteToolCall /\ UNCHANGED notAgent

\* Turns of an agent whose history already holds earlier turns.
SpecWindow == WindowInit /\ [][WindowNext]_vars

\* ------------------------------------------------- claims on the ReAct loop
HasNotice(text) == text # <<>> /\ Last(text) = LimitNotice

\* C1: a turn in which every response of the model holds a tool call (it
\* ends neither on a response without tool calls nor on a failed model call)
\* makes exactly REACT_SAFETY_LIMIT model calls and returns an answer that
\* carries the limit notice.
C1_AlwaysToolCallsRunsToLimit ==
    (pc = "done" /\ ended \notin {"finished", "provider_error"})
        => /\ modelCalls = REACT_SAFETY_LIMIT
           /\ ended = "limit"
           /\ HasNotice(answer)

\* C2: the returned answer carries the limit notice exactly when the turn
\* was stopped by the iteration cap; a turn that ends on a response without
\* tool calls, on any iteration up to the last permitted one, carries none.
C2_NoticeIffStoppedByCap ==
    pc = "done" => (HasNotice(answer) <=> ended = "limit")

\* C11: before the iteration cap the loop goes on exactly when the response
\* holds tool calls: the tools are run only for a response that holds some,
\* and a turn that is over after fewer than REACT_SAFETY_LIMIT model calls
\* ended on a response without tool calls (or on a failed model call), never
\* after a response that held one.
C11_EndsOnlyWithoutToolCalls ==
    /\ pc = "tools" => function_calls # <<>>
    /\ (pc = "done" /\ ended # "provider_error" /\ modelCalls < REACT_SAFETY_LIMIT)
          => ended = "finished"

\* The answer without the limit notice.
StripNotice(text) == IF HasNotice(text) THEN SubSeq(text, 1, Len(text) - 1) ELSE text

\* C12: a turn that ended without a failed model call answers with the
\* newline-joined text of the latest response of the turn that had text, or
\* with the fallback sentence when no response had text; the limit notice
\* follows when the cap stopped the loop.
C12_AnswerIsLatestText ==
    (pc = "done" /\ ended # "provider_error")
        => /\ StripNotice(answer) = IF lastText # <<>> THEN lastText ELSE <<Fallback>>
           /\ ended = "limit" => HasNotice(answer)

C28_FailedSaveKeepsAnswer ==
    pc = "done" =>
        /\ ended \in {"finished", "limit"}
              => StripNotice(answer) = IF lastText # <<>> THEN lastText ELSE <<Fallback>>
        /\ ended = "provider_error"
              => answer = <<"Error:", "Gemini API Error:", "provider">>
        /\ ended \in {"dispatch_raised", "format_raised"}
              => answer = <<"Unexpected error:", "TypeError">>
        /\ Last(messages) = Message("assistant", answer)
        /\ Len(messages) = 2 * turns

\* A turn has ended with the model's text while the save failed half way: the
\* file holds no history.
C28_Witness ==
    /\ pc = "done"
    /\ disk = "full"
    /\ ended = "finished"
    /\ answer = <<"t1">>
    /\ history_file.kind = "invalid"
    /\ Len(messages) = 2

\* The transcript turn says that the tool failed.
IsFailedTurn(content) == Len(content.text) >= 4 /\ content.text[4] = "failed:"

\* C19: a tool call that ended in an error is rendered as the turn
\* "Tool <name> failed: <detail>", which the working messages hold when the
\* next model call is due; the turn is never over while an error has not
\* been followed by a model call.
C19_ToolErrorGoesBackToModel ==
    /\ pc = "model" =>
          \A i \in 1..Len(dispatched) :
              HasError(dispatched[i].response)
                  => /\ baseLen + i <= Len(working)
                     /\ working[baseLen + i] =
                           Content("user", <<"[Tool Result]", "Tool", dispatched[i].name,
                                             "failed:">> \o dispatched[i].response.error)
    /\ pc = "done" => ~errorPending

\* C20: formatting never changes the control flow: no turn ends on an
\* exception of the formatter, and when the next model call is due the
\* working messages hold one turn per dispatched result, a failed turn
\* exactly for the error results.
C20_FormattingKeepsControlFlow ==
    /\ ended # "format_raised"
    /\ pc = "model" =>
          /\ Len(working) = baseLen + Len(dispatched)
          /\ \A i \in 1..Len(dispatched) :
                IsFailedTurn(working[baseLen + i]) <=> HasError(dispatched[i].response)

\* C21: at most one awaited operation is in flight: a dispatch starts only
\* when the previous one has returned, and no model call is in flight
\* together with a dispatch.
C21_OneOperationInFlight ==
    /\ Len(in_flight) <= 1
    /\ in_flight # <<>> => in_flight = <<awaiting>>

\* The second call of a batch is in flight, the first has returned.
C21_Witness == in_flight = <<"tool">> /\ Len(tool_results) >= 1

\* C6: no tool-call request aborts the turn: dispatching a call never raises
\* into react_loop, whatever its name and argument mapping.
C6_DispatchNeverAbortsTurn ==
    ended # "dispatch_raised"

\* C8: a failed model call ends the turn at once. The step that fails is a
\* model call that dispatches nothing and appends exactly one message; after
\* it the turn is over, the answer is the error text without a limit notice,
\* it is the last message of the history, an assistant message that follows
\* the turn's user message, and the history file holds the history.
C8_ProviderErrorEndsTurn ==
    /\ [](ended = "provider_error" =>
            /\ pc = "done"
            /\ answer = <<"Error:", "Gemini API Error:", "provider">>
            /\ ~HasNotice(answer)
            /\ Len(messages) = 2 * turns
            /\ Last(messages) = Message("assistant", answer)
            /\ messages[Len(messages) - 1].role = "user"
            /\ history_file = SaveHistory(messages))
    /\ [][(ended # "provider_error" /\ ended' = "provider_error") =>
            /\ pc = "model"
            /\ modelCalls' = modelCalls + 1
            /\ toolBatches' = toolBatches
            /\ resultsAppended' = resultsAppended
            /\ messages' = Append(messages, Last(messages'))]_vars
    /\ [][(ended = "provider_error" /\ ended' = "provider_error") =>
            /\ modelCalls' = modelCalls
            /\ toolBatches' = toolBatches
            /\ messages' = messages]_vars

\* A model call fails after a batch of tool calls was dispatched.
C8_Witness ==
    ended = "provider_error" /\ modelCalls >= 2 /\ toolBatches >= 1

\* The transcript turns of the calls dispatched so far in this turn.
DispatchedTurns ==
    [i \in 1..Len(dispatched) |->
        FormatToolResult(dispatched[i].name, dispatched[i].response).content]

\* C9: tool calls are dispatched one at a time in the order the model
\* emitted them; when the next model call is made every emitted call has
\* been dispatched and the working messages hold, after the turn's first
\* messages, one formatted result per call in that same order.
C9_ResultsInEmittedOrder ==
    /\ Len(dispatched) <= Len(emitted)
    /\ \A i \in 1..Len(dispatched) : dispatched[i].name = emitted[i].name
    /\ pc = "tools" =>
         /\ Len(tool_results) < Len(function_calls)
         /\ Len(dispatched) = Len(emitted) - Len(function_calls) + Len(tool_results)
         /\ tool_results = SubSeq(dispatched, Len(dispatched) - Len(tool_results) + 1,
                                  Len(dispatched))
    /\ pc = "model" =>
         /\ Len(dispatched) = Len(emitted)
         /\ working = SubSeq(working, 1, baseLen) \o DispatchedTurns

\* The next model call is due after a batch of two calls to different tools
\* with different results.
C9_Witness ==
    /\ pc = "model"
    /\ Len(dispatched) = 2
    /\ dispatched[1].name # dispatched[2].name
    /\ DispatchedTurns[1] # DispatchedTurns[2]
    /\ working[Len(working)] = DispatchedTurns[2]

\* --------------------------------------------- claims on path validation
\* The resolved path lies in the working directory: the directory itself or
\* something below it.
Inside(wd, path) == IsPrefix(wd, path)

ResolvedCandidate == Resolve(symlinks, working_directory, validation.candidate.segs)

\* C3: a relative candidate whose resolved form lies outside the working
\* directory is denied, in each file tool and under every layout, also when a
\* sibling directory's name extends the working directory's name.
C3_OutsideIsDenied ==
    (/\ validation.tool # Null
     /\ validation.candidate.kind = "relative"
     /\ ~Inside(working_directory, ResolvedCandidate))
        => ~validation.result.ok

\* C4: a relative candidate that resolves inside the working directory (the
\* directory itself or a descendant) is accepted, and the path returned is the
\* resolved path, which has the working directory as its prefix.
C4_InsideIsAccepted ==
    (/\ validation.tool # Null
     /\ validation.candidate.kind = "relative"
     /\ Inside(working_directory, ResolvedCandidate))
        => /\ validation.result.ok
           /\ validation.result.file_path = ResolvedCandidate
           /\ StartsWith(PathStr(validation.result.file_path), PathStr(working_directory))

\* C23: an absolute candidate is denied by every file tool, also when it
\* names the working directory or a path below it.
C23_AbsoluteIsDenied ==
    (validation.tool # Null /\ validation.candidate.kind = "absolute")
        => validation.result = Denied

\* An absolute candidate below the working directory was denied.
C23_Witness ==
    /\ validation.tool # Null
    /\ validation.candidate.kind = "absolute"
    /\ validation.candidate.segs = Append(working_directory, NameS)
    /\ Inside(working_directory, Resolve(symlinks, <<>>, validation.candidate.segs))
    /\ ~validation.result.ok

\* A candidate that leaves the working directory through ".." and comes back
\* to the directory itself is accepted.
C4_Witness ==
    /\ validation.tool = "write_file"
    /\ validation.candidate.kind = "relative"
    /\ DotDot \in {validation.candidate.segs[i] : i \in 1..Len(validation.candidate.segs)}
    /\ validation.result.ok
    /\ validation.result.file_path = working_directory

\* ------------------------------------------------ claims on the file tools
\* C5: write_file(P, T) followed by read_file(P), with a valid file path P
\* and any previous content, succeeds and returns exactly T.
C5_WriteThenReadReturnsText ==
    (/\ file_result.tool = "read_file"
     /\ last_write # NoWrite
     /\ last_write.valid
     /\ file_result.valid
     /\ last_write.path = file_result.path)
        => /\ last_write.result.success
           /\ file_result.result.success
           /\ file_result.result.content = last_write.content

\* The names in a list of entries.
NamesIn(entries) == { entries[i].name : i \in 1..Len(entries) }

\* The names of the entries of a directory, of one kind or of every kind.
NamesOfKind(dir, kind) ==
    { n \in EntryNames : NodeAt(working_directory, files, Append(dir, n)).kind = kind }

NamesPresent(dir) ==
    { n \in EntryNames : NodeAt(working_directory, files, Append(dir, n)).kind # "missing" }

Ascending(entries) ==
    \A i, j \in 1..Len(entries) : i < j => NameLess(entries[i].name, entries[j].name)

\* The lists hold the regular files and the directories, sorted, and their
\* lengths add up to total_items.
ListsFilesAndDirectories(l) ==
    /\ NamesIn(l.result.content.files) = NamesOfKind(l.path, "file")
    /\ NamesIn(l.result.content.directories) = NamesOfKind(l.path, "dir")
    /\ Len(l.result.content.files) = Cardinality(NamesOfKind(l.path, "file"))
    /\ Len(l.result.content.directories) = Cardinality(NamesOfKind(l.path, "dir"))
    /\ Ascending(l.result.content.files)
    /\ Ascending(l.result.content.directories)
    /\ l.result.size = Len(l.result.content.files) + Len(l.result.content.directories)

\* Every entry of the directory is in exactly one of the two lists.
EveryEntryInOneList(l) ==
    \A n \in NamesPresent(l.path) :
        (n \in NamesIn(l.result.content.files))
            # (n \in NamesIn(l.result.content.directories))

\* C24: list_files on a directory returns its regular files in the file
\* list and its directories in the directory list, each entry in exactly one
\* list, both lists ascending by name, total_items the sum of the lengths;
\* two calls on the unchanged directory return the same result.
C24_ListingIsPartitionSortedStable ==
    /\ \A i \in 1..Len(listings) :
          NodeAt(working_directory, files, listings[i].path).kind = "dir"
              => /\ listings[i].result.success
                 /\ ListsFilesAndDirectories(listings[i])
                 /\ EveryEntryInOneList(listings[i])
    /\ \A i, j \in 1..Len(listings) :
          listings[i].path = listings[j].path => listings[i].result = listings[j].result

\* The path a call of the batch resolves to.
BatchPath(i) == Resolve(symlinks, working_directory, batch[i].path.segs)

\* C22: in a batch, a read_file(P) after a write_file(P, T) that wrote, with
\* no other write to P between them, succeeds with the content T.
C22_ReadInBatchSeesWrite ==
    \A i \in 1..Len(batch_results), j \in 1..Len(batch_results) :
        (/\ i < j
         /\ batch[i].name = "write_file"
         /\ batch_results[i].response.success
         /\ batch[j].name = "read_file"
         /\ BatchPath(j) = BatchPath(i)
         /\ \A k \in (i + 1)..(j - 1) :
                ~(batch[k].name = "write_file" /\ BatchPath(k) = BatchPath(i)))
            => /\ batch_results[j].response.success
               /\ batch_results[j].response.content = batch[i].content

\* The readable text files below the directory searched.
TextFilesBelow(dir) ==
    { q \in DOMAIN files :
        /\ IsPrefix(dir, q) /\ q # dir
        /\ files[q].kind = "file"
        /\ Decode(files[q].data).ok }

\* The search was made with a pattern re.compile accepts, on a directory the
\* validation accepts, and no text file below it holds the pattern's letter.
SearchMatchesNothing ==
    /\ file_result.tool = "search_files"
    /\ file_result.valid
    /\ NodeAt(working_directory, files, file_result.path).kind = "dir"
    /\ file_result.arguments.pattern.kind # "invalid"
    /\ \A q \in TextFilesBelow(file_result.path) :
          LET text == Decode(files[q].data).text
          IN \A i \in 1..Len(text) : text[i] # file_result.arguments.pattern.c

\* C30: a search whose pattern matches in no file succeeds with no matches
\* and the count 0, which is no error and is rendered with the text "No
\* matches found.".
C30_NoMatchIsSuccess ==
    SearchMatchesNothing
        => /\ file_result.result.success
           /\ file_result.result.content = {}
           /\ file_result.result.size = 0
           /\ ~HasError(SearchDict(file_result.result))
           /\ FormatToolResult("search_files", SearchDict(file_result.result))
                 = [raises |-> FALSE,
                    content |-> Content("user", <<"[Tool Result]", "Search results for",
                                                   "No matches found.">>)]

\* A search for a letter that the text file below the directory does not hold.
C30_Witness ==
    /\ SearchMatchesNothing
    /\ file_result.arguments.pattern = [kind |-> "char", c |-> "z"]
    /\ \E q \in TextFilesBelow(file_result.path) : Decode(files[q].data).text # <<>>
    /\ file_result.result.success

\* The text files below the directory searched whose name ends with the
\* extension given, letter case aside, and whose text holds the pattern's
\* letter.
MatchingFiles ==
    { q \in TextFilesBelow(file_result.path) :
        /\ file_result.arguments.file_extension # <<>>
              => LET name == Lower(q[Len(q)])
                     suffix == Lower(file_result.arguments.file_extension)
                 IN /\ Len(suffix) <= Len(name)
                    /\ \A i \in 1..Len(suffix) :
                          name[Len(name) - Len(suffix) + i] = suffix[i]
        /\ \E i \in 1..Len(Decode(files[q].data).text) :
              Decode(files[q].data).text[i] = file_result.arguments.pattern.c }

\* How often the pattern's letter occurs in the text of a file.
Occurrences(q) ==
    Cardinality({ i \in 1..Len(Decode(files[q].data).text) :
                    Decode(files[q].data).text[i] = file_result.arguments.pattern.c })

\* A search on a directory the validation accepts, with a pattern
\* re.compile accepts.
SearchOnDirectory ==
    /\ file_result.tool = "search_files"
    /\ file_result.valid
    /\ NodeAt(working_directory, files, file_result.path).kind = "dir"
    /\ file_result.arguments.pattern.kind # "invalid"

\* The samples of a listed file are strings that the pattern matched.
SamplesAreMatchedSubstrings(match) ==
    \A i \in 1..Len(match.sample_matches) :
        /\ ~match.sample_matches[i].tuple
        /\ match.sample_matches[i].text = <<file_result.arguments.pattern.c>>

\* The files a successful search lists, their counts and the total.
ListsTheMatchingFiles ==
    /\ { match.file : match \in file_result.result.content } = MatchingFiles
    /\ Cardinality(file_result.result.content) = Cardinality(MatchingFiles)
    /\ file_result.result.size = Cardinality(file_result.result.content)
    /\ \A match \in file_result.result.content :
          /\ match.matches >= 1
          /\ match.matches = Occurrences(match.file)
          /\ Len(match.sample_matches) = IF match.matches < 5 THEN match.matches ELSE 5

\* C32: a successful search_files lists exactly the text files below the
\* search path, filtered by the extension, in which the pattern matches; each
\* has a count of at least 1 and min(count, 5) samples that are matched
\* substrings of the file, total_files_with_matches is the number of listed
\* files, and a file that is no text does not make the search an error.
C32_SearchListsMatchingFiles ==
    /\ SearchOnDirectory => file_result.result.success
    /\ (file_result.tool = "search_files" /\ file_result.result.success)
          => /\ ListsTheMatchingFiles
             /\ \A match \in file_result.result.content : SamplesAreMatchedSubstrings(match)

\* C18: a file tool whose path validation fails returns the access-denied
\* error and leaves the file system as it was: no directory made, no file
\* written.
C18_DeniedTouchesNothing ==
    (file_result.tool # Null /\ ~file_result.valid)
        => /\ ~file_result.result.success
           /\ file_result.result.error = "Access denied"
           /\ files = file_result.before

\* write_file was refused a path whose directory does not exist.
C18_Witness ==
    /\ file_result.tool = "write_file"
    /\ ~file_result.valid
    /\ file_result.path = <<NameW, NameS, NameF>>
    /\ files[<<NameW, NameS>>] = Missing

\* ----------------------------------------------------- claims on shell_exec
\* C25: a command that terminates within the timeout with a nonzero exit code
\* yields a run result with exit_code, stdout and stderr, success false and
\* no error; for a command that is not blank the only errors are the timeout
\* and the failures to launch, and an error carries no exit code.
C25_NonzeroExitIsARunResult ==
    /\ (sh_pc = "returned" /\ proc.state = "exited" /\ proc.returncode # 0
            /\ elapsed < SHELL_TIMEOUT)
          => /\ {"exit_code", "stdout", "stderr", "success"} \subseteq sh_result.keys
             /\ "error" \notin sh_result.keys
             /\ ~sh_result.success
             /\ sh_result.exit_code = proc.returncode
    /\ (sh_pc = "returned" /\ ~IsBlank(sh_command) /\ "error" \in sh_result.keys)
          => /\ sh_result.kind \in
                   {"Execution timed out after 10 seconds"} \cup (Launches \ {"spawned"})
             /\ sh_result.kind = "Execution timed out after 10 seconds"
                   => elapsed = SHELL_TIMEOUT
             /\ "exit_code" \notin sh_result.keys

\* A command has exited with code 1 before the timeout and execute returned.
C25_Witness ==
    /\ sh_pc = "returned"
    /\ proc.state = "exited"
    /\ proc.returncode = 1
    /\ elapsed < SHELL_TIMEOUT
    /\ sh_result.kind = "failure"

\* The command of the call holds nothing but whitespace.
OnlyWhitespace == \A i \in 1..Len(sh_command) : sh_command[i] \in {" ", "\t", "\n"}

\* An empty or whitespace-only command is refused with the error and spawns
\* nothing.
BlankIsRefused ==
    (sh_pc = "returned" /\ OnlyWhitespace)
        => /\ sh_result.kind = "Command cannot be empty"
           /\ "error" \in sh_result.keys
           /\ spawned = 0
           /\ proc = NoProcess

\* C26 as stated: a blank command is refused and spawns nothing; a call with
\* any other command has spawned exactly one subprocess when it returns.
C26_OneSubprocessPerCall ==
    /\ BlankIsRefused
    /\ (sh_pc = "returned" /\ ~OnlyWhitespace) => spawned = 1

\* C26, amended: a blank command is refused and spawns nothing; a call with
\* any other command spawns at most one subprocess, one when the shell was
\* launched and none when the launch failed.
C26_AtMostOneSubprocessPerCall ==
    /\ BlankIsRefused
    /\ (sh_pc # "idle" /\ ~OnlyWhitespace)
          => /\ spawned \in {0, 1}
             /\ spawned = 0 <=> (/\ proc = NoProcess
                                 /\ sh_result.kind \in Launches \ {"spawned"})

\* A whitespace-only command was refused.
C26_Witness ==
    /\ sh_pc = "returned"
    /\ sh_command = <<" ", "\t">>
    /\ sh_result.kind = "Command cannot be empty"
    /\ spawned = 0

\* C10: execute never has returned while the subprocess it spawned is alive;
\* the timeout error is returned only after the timeout, once the subprocess
\* has terminated.
C10_NoReturnWhileAlive ==
    sh_pc = "returned" =>
        /\ proc.state # "running"
        /\ sh_result.kind = "Execution timed out after 10 seconds" =>
              /\ proc.state = "exited"
              /\ elapsed = SHELL_TIMEOUT

\* A command still running at the timeout was killed, and the call returned
\* the timeout error.
C10_Witness ==
    /\ sh_pc = "returned"
    /\ sh_result.kind = "Execution timed out after 10 seconds"
    /\ kill_sent
    /\ proc = [state |-> "exited", returncode |-> -9]

\* ---------------------------------------------------- claims on web_search
\* C27: the count sent to the provider lies in 1..20: a count below 1 is
\* sent as 1, a count above 20 as 20, a count in the range as it is, and an
\* omitted count as 10.
C27_CountSentIsClamped ==
    web_call.outcome.request.sent =>
        LET given == web_call.count
            sent == web_call.outcome.request.count
        IN /\ sent \in 1..20
           /\ (given.given /\ given.value < 1) => sent = 1
           /\ (given.given /\ given.value > 20) => sent = 20
           /\ (given.given /\ given.value \in 1..20) => sent = given.value
           /\ ~given.given => sent = 10

\* A request went out for a count above the limit.
C27_Witness ==
    /\ web_call.outcome.request.sent
    /\ web_call.count.given
    /\ web_call.count.value > 20
    /\ web_call.outcome.request.count = 20

\* ---------------------------------------------------- claims on the registry
\* C7: dispatching a name that is not registered returns an error result that
\* names the tool, runs no tool, leaves the registry as it was and does not
\* raise.
C7_UnknownToolIsAnErrorResult ==
    (dispatch.name # Null /\ dispatch.name \notin ToolNamesOf(dispatch.before))
        => /\ ~dispatch.outcome.raises
           /\ dispatch.outcome.result = ErrorResult(<<"Unknown tool:", dispatch.name>>)
           /\ dispatch.outcome.ran = Null
           /\ registry = dispatch.before

\* The tool of the latest of the first k registrations under a name.
RECURSIVE LatestRegistered(_, _)
LatestRegistered(k, name) ==
    IF k = 0 THEN NoTool
    ELSE IF registrations[k].name = name THEN registrations[k].id
    ELSE LatestRegistered(k - 1, name)

RegisteredSoFar == { registrations[k].name : k \in 1..Len(registrations) }

\* C29: after any register calls the registry holds one tool per registered
\* name, get_tool and execute_tool use the tool registered last under the
\* name, and the names and the declarations have one entry per name.
C29_LastRegistrationWins ==
    /\ \A n \in RegisteredSoFar :
          /\ Cardinality({ i \in 1..Len(tool_items) : tool_items[i].name = n }) = 1
          /\ GetTool(tool_items, n) = LatestRegistered(Len(registrations), n)
    /\ \A n \in (RegistryNames \cup {"no_such_tool"}) \ RegisteredSoFar :
          GetTool(tool_items, n) = NoTool
    /\ Len(tool_items) = Cardinality(RegisteredSoFar)
    /\ Len(GetToolNames(tool_items)) = Cardinality(RegisteredSoFar)
    /\ { GetToolNames(tool_items)[i] : i \in 1..Len(tool_items) } = RegisteredSoFar
    /\ Len(GetFunctionDeclarations(tool_items)) = Cardinality(RegisteredSoFar)
    /\ { GetFunctionDeclarations(tool_items)[i].name : i \in 1..Len(tool_items) }
          = RegisteredSoFar
    /\ executed.name # Null
          => executed.tool = LatestRegistered(executed.at, executed.name)

\* A name was registered twice with different tools, another name between
\* them, and the tool run under the name is the second.
C29_Witness ==
    /\ Len(registrations) = 3
    /\ registrations[1].name = registrations[3].name
    /\ registrations[1].id # registrations[3].id
    /\ registrations[2].name # registrations[1].name
    /\ executed.name = registrations[3].name
    /\ executed.at = 3
    /\ executed.tool = registrations[3].id

\* --------------------------------------------------- claims on the history
\* An agent has just been constructed: no turn and no clear yet.
JustConstructed == pc = "idle" /\ turns = 0 /\ cleared_at = -1

C15_ConstructionNeverFails ==
    /\ pc # "crashed"
    /\ (JustConstructed /\ history_file.kind # "object") => messages = <<>>

\* C16: after clear_history the history is empty and there is no history
\* file; once the following turns are over the file holds their messages
\* and no others.
C16_ClearLeavesNothing ==
    cleared_at >= 0 =>
        /\ turns = cleared_at => (messages = <<>> /\ history_file = NoFile)
        /\ (turns > cleared_at /\ pc = "done") =>
              /\ Len(messages) = 2 * (turns - cleared_at)
              /\ history_file = SaveHistory(messages)

\* The history was cleared after a turn on a loaded history, and another
\* turn is over.
C16_Witness ==
    /\ cleared_at = 1
    /\ turns = 2
    /\ pc = "done"
    /\ runs = 2
    /\ Len(messages) = 2

\* C17: but for clear_history (and the end of the process), every step
\* leaves the history a prefix of what it is afterwards.
C17_HistoryIsAppendOnly ==
    [][(runs' = runs /\ pc' # "off" /\ cleared_at' = cleared_at)
          => IsPrefix(messages, messages')]_vars

\* Two turns of one agent on a loaded history are over.
C17_Witness ==
    /\ pc = "done"
    /\ turns = 2
    /\ cleared_at = -1
    /\ Len(messages) = 4
    /\ messages[1] # messages[3]

\* ------------------------------------------- claims on the message sequence
\* The first model call of the turn is about to be made.
BeforeFirstCall == pc = "model" /\ modelCalls = 0

\* The turn of the model-facing sequence that a history message becomes.
AsTurn(message) ==
    [role |-> IF message.role = "assistant" THEN "model" ELSE message.role,
     text |-> message.content]

\* C31: the sequence of the first model call of a turn is the system
\* instructions, the priming acknowledgment, then the RECENT_MESSAGES_LIMIT
\* most recent history messages (all of them if there are fewer) in history
\* order; its last element is the current user input as a user turn, and
\* nothing follows the window.
C31_FirstCallSequence ==
    BeforeFirstCall =>
        LET n == Len(messages)
            k == IF n > RECENT_MESSAGES_LIMIT THEN RECENT_MESSAGES_LIMIT ELSE n
        IN /\ Len(working) = 2 + k
           /\ working[1] = [role |-> "user", text |-> <<SystemPrompt>>]
           /\ working[2] = [role |-> "model", text |-> <<PrimingAck>>]
           /\ \A i \in 1..k : working[2 + i] = AsTurn(messages[n - k + i])
           /\ \E u \in UserInputs :
                 /\ messages[n] = [role |-> "user", content |-> u]
                 /\ working[Len(working)] = [role |-> "user", text |-> u]
                 /\ k >= 2 => working[Len(working) - 1] # working[Len(working)]

\* The first call of a turn whose history is longer than the window.
C31_Witness ==
    /\ BeforeFirstCall
    /\ Len(messages) > RECENT_MESSAGES_LIMIT
    /\ Len(working) = RECENT_MESSAGES_LIMIT + 2

\* ------------------------------------------- claims on malformed responses
\* C33: a malformed model response never aborts the turn: parsing returns
\* its two lists without raising; a response without candidates, content or
\* parts ends the turn as a response without tool calls does; and the turn
\* ends with an answer that is the last message of the history.
C33_MalformedResponseEndsWithAnswer ==
    /\ ~parsed.raises
    /\ ended # "parse_raised"
    /\ parsed.shape \in {"no_candidates", "no_content", "empty_parts", "no_parts"}
          => /\ pc = "done"
             /\ ended = "finished"
             /\ parsed.text_responses \in {<<>>, <<ParsingError>>}
    /\ (parsed.shape # "none" /\ pc = "done")
          => /\ answer # <<>>
             /\ Len(messages) = 2 * turns
             /\ messages[Len(messages)] = [role |-> "assistant", content |-> answer]
             /\ messages[Len(messages) - 1].role = "user"

\* The turn ended on a response whose parts are None, with the diagnostic
\* text as the answer.
C33_Witness ==
    /\ parsed.shape = "no_parts"
    /\ pc = "done"
    /\ answer = <<ParsingError>>
    /\ messages[Len(messages)] = [role |-> "assistant", content |-> <<ParsingError>>]

\* ---------------------------------------------- claims on a turn's messages
InTurn(at) == at \in {"model", "tools"}

\* C34: a call of process_message appends the user input to the history
\* when it starts, appends nothing while the loop calls the model and the
\* tools, and when it returns, however the turn ended, appends one assistant
\* message that is the text answer returned.
C34_TurnAddsUserAndAnswer ==
    [][/\ (~InTurn(pc) /\ InTurn(pc'))
            => \E u \in UserInputs :
                  messages' = messages \o <<[role |-> "user", content |-> u]>>
       /\ (InTurn(pc) /\ InTurn(pc')) => messages' = messages
       /\ (InTurn(pc) /\ ~InTurn(pc'))
            => /\ pc' = "done"
               /\ ended' \in {"finished", "limit", "provider_error", "dispatch_raised",
                               "format_raised"}
               /\ answer' # <<>>
               /\ messages' = messages \o <<[role |-> "assistant", content |-> answer']>>]_vars

\* A turn that dispatched tool calls up to the iteration cap is over: the
\* history holds its two messages.
C34_Witness ==
    /\ pc = "done"
    /\ ended = "limit"
    /\ toolBatches = REACT_SAFETY_LIMIT
    /\ resultsAppended > 0
    /\ Len(messages) = 2
    /\ messages[2].content = answer

\* ------------------------------------------------ claims on the iteration cap
\* C35: the step that ends a turn at the iteration cap is the dispatch of
\* the last tool call of the batch of the REACT_SAFETY_LIMIT-th response: the
\* results of that batch have been appended and no model call follows. In a
\* turn that ended at the cap the batches dispatched are as many as the
\* model calls, in a turn that ended because the model finished one less.
C35_BatchesAndModelCalls ==
    [][/\ (pc = "tools" /\ pc' = "done" /\ ended' = "limit")
            => /\ Len(tool_results) + 1 = Len(function_calls)
               /\ resultsAppended' = resultsAppended + Len(function_calls)
               /\ toolBatches' = toolBatches + 1
               /\ modelCalls' = modelCalls
       /\ (pc' = "done" /\ ended' = "limit")
            => /\ modelCalls' = REACT_SAFETY_LIMIT
               /\ toolBatches' = modelCalls'
       /\ (pc' = "done" /\ ended' = "finished")
            => toolBatches' = modelCalls' - 1]_vars

\* A turn ended at the cap; its first batch held two calls, the others one.
C35_Witness ==
    /\ pc = "done"
    /\ ended = "limit"
    /\ modelCalls = REACT_SAFETY_LIMIT
    /\ toolBatches = REACT_SAFETY_LIMIT
    /\ resultsAppended = REACT_SAFETY_LIMIT + 1

\* ------------------------------------------ claims on the working directory
\* C36: after change_working_directory(D) every registered file tool and
\* the shell tool has D as its working directory, none the previous one; a
\* dispatch validates the path against the agent's directory, or runs the
\* command in it; the history file is the same file name under D; and the
\* call leaves the messages in memory as they are.
C36_ToolsFollowTheWorkingDirectory ==
    [][/\ \A n \in {"read_file", "write_file", "list_files", "search_files", "shell_exec"} :
            /\ tool_roots'[n].registered
            /\ tool_roots'[n].root = agent_directory'
       /\ history_path' = [dir |-> agent_directory', name |-> history_path.name]
       /\ root_call' # root_call
            => /\ root_call'.name # "shell_exec"
                    => root_call'.validation
                          = ValidatePathSecurity(agent_directory, symlinks, root_call'.candidate)
               /\ root_call'.name = "shell_exec" => root_call'.cwd = agent_directory
       /\ changes' # changes
            => /\ messages' = messages
               /\ agent_directory' \in Directories]_vars

\* After a turn the directory was changed, and a file tool accepted a path
\* that lies in the new directory and outside the previous one.
C36_Witness ==
    /\ changes >= 1
    /\ messages # <<>>
    /\ agent_directory = <<NameH, NameW>>
    /\ root_call.after >= 1
    /\ root_call.name = "write_file"
    /\ root_call.validation = [ok |-> TRUE, file_path |-> <<NameH, NameW, NameS>>]

====
